---------------------------- MODULE Spec2Model ----------------------------
(***************************************************************************)
(* Model of the accumulator service of sp1-utreexo.                        *)
(*                                                                         *)
(* Service state machine (accumulator-service/src/state_machine.rs):       *)
(*   - Context::send, run concurrently by the HTTP callers, one atomic     *)
(*     step per lock acquisition / channel operation;                      *)
(*   - the background worker spawned by Context::new, one step per         *)
(*     command handler plus the non-blocking poll of the running job;      *)
(*   - the spawned job tasks (run_with_cancel) and the tasks spawned by    *)
(*     the Pause handler that join a cancelled job and publish Paused.     *)
(***************************************************************************)
EXTENDS Naturals, Integers, Sequences, FiniteSets, TLC

\* ------------------------------------------------------------------ bounds
\* block heights callers may ask for in Update(h) are 1..MaxHeight
MaxHeight == 1
\* job tasks that may be alive at the same time
MaxJobs == 2
\* commands waiting in the channel in the explored runs
MaxQueue == 2
\* versions of the forest a file may hold are 0..MaxVer
MaxVer == 1
\* jobs, Dumps and Restores started in one explored run
MaxOps == 3
\* outside changes to working files in one explored run
MaxMutations == 1
\* sends accepted in one explored run (3 give every handler and every pair of
\* consecutive commands; from 4 on the Resume handler is also reached while a
\* job is held)
MaxSends == 3

\* mpsc::channel::<Command>(8)
ChannelCap == 8

\* the concurrent callers of Context::send (HTTP handlers): two of them give
\* every pairwise race between sends
Callers == {"c1", "c2"}
Heights == 1..MaxHeight
JobIds == 1..MaxJobs
\* origin tag of a command the worker re-enqueues itself (tx_bg)
Worker == "worker"

VARIABLES
    state,      \* Arc<RwLock<ServiceState>>: the published state
    queue,      \* the mpsc channel tx -> rx
    spc,        \* per caller: position inside Context::send
    cur,        \* per caller: the command of the send in progress
    verdict,    \* what the last is_valid_transition check of a send led to
    wpc,        \* worker: "recv" | "dumping" | "poll"
    running,    \* worker local `running: Option<RunningJob>`
    jobs,       \* per job task: "free" | "run" | "cancelled" | "ok" | "err"
    pausers,    \* job ids awaited by the tasks the Pause handler spawned
    fs_lock,    \* Arc<Mutex<()>>: "free" or its holder
    lastEv,     \* history: last acceptance / clean Stop
    pausedKind, \* history: kind of the job the last handled Pause cancelled
    nsent,      \* history: number of sends accepted so far
    \* the durable files, as one job / Dump / Restore at a time works on them
    wd,         \* working directory: file name -> content
    snap,       \* snapshot directory `dir`: file name -> content
    fstate,     \* the published ServiceState
    fpc,        \* position inside the operation in progress, "idle" if none
    fop,        \* the operation in progress or last finished, with its inputs
    fres,       \* how the last operation ended: "none" | "ok" | "err"
    prune,      \* the spawn_blocking task running prune_forest_sync
    dumped,     \* history: working directory as the last successful Dump saw it,
                \* and the job (by its number) during which that Dump ran, if any
    nops,       \* history: operations started so far
    nmut,       \* history: outside changes made to working files so far
    \* the accumulator (rustreexo Pollard) under modify / prove / fake_modify
    acc,        \* the Pollard: node arena, roots, leaves, map
    hist,       \* history: hashes added and deleted so far
    call,       \* the last modify call: inputs, result, accumulator before
    pf,         \* the last prove / verify call and its outcome
    zk,         \* the last stripped-pollard run next to the full one
    \* one block under the leaf-hash functions and the process_block variants
    blk,        \* the block at hand: its height and its transactions
    lh          \* the last leaf-hash computation: its inputs and the hashes

svcVars == <<state, queue, spc, cur, verdict, wpc, running, jobs, pausers, fs_lock,
             lastEv, pausedKind, nsent>>
fsVars == <<wd, snap, fstate, fpc, fop, fres, prune, dumped, nops, nmut>>
accVars == <<acc, hist, call, pf, zk>>
blkVars == <<blk, lh>>
vars == <<svcVars, fsVars, accVars, blkVars>>

\* ------------------------------------------------------------ ServiceState
Idle == [tag |-> "Idle", height |-> 0]
Building == [tag |-> "Building", height |-> 0]
Updating(h) == [tag |-> "Updating", height |-> h]
Paused == [tag |-> "Paused", height |-> 0]
Error == [tag |-> "Error", height |-> 0]

ServiceState == {Idle, Building, Paused, Error} \cup {Updating(h) : h \in 0..MaxHeight}

\* ----------------------------------------------------------------- Command
Cmd(t, h) == [type |-> t, h |-> h]
NoCmd == Cmd("None", 0)
Command == {Cmd(t, 0) : t \in {"Build", "Pause", "Resume", "Stop", "Dump", "Restore"}}
             \cup {Cmd("Update", h) : h \in Heights}

\* JobKind / Option<RunningJob>
None == [id |-> 0, kind |-> NoCmd]
RunningJob(j, k) == [id |-> j, kind |-> k]

\* ------------------------------------------------- Context::is_valid_transition
IsValidTransition_Lenient(st, cmd) ==
    \/ st.tag = "Idle" /\ cmd.type \in {"Build", "Update", "Dump", "Restore"}
    \/ st.tag \in {"Building", "Updating"} /\ cmd.type \in {"Pause", "Stop", "Dump"}
    \/ st.tag = "Paused" /\ cmd.type \in {"Resume", "Stop", "Dump", "Build"}
    \/ st.tag = "Error" /\ cmd.type = "Restore"

IsValidTransition(st, cmd) ==
    \/ st.tag = "Idle" /\ cmd.type = "Build"
    \/ st.tag = "Idle" /\ cmd.type = "Update"
    \/ st.tag = "Idle" /\ cmd.type = "Dump"
    \/ st.tag = "Idle" /\ cmd.type = "Restore"
    \/ st.tag = "Building" /\ cmd.type = "Pause"
    \/ st.tag = "Building" /\ cmd.type = "Stop"
    \/ st.tag = "Building" /\ cmd.type = "Dump"
    \/ st.tag = "Updating" /\ cmd.type = "Pause"
    \/ st.tag = "Updating" /\ cmd.type = "Stop"
    \/ st.tag = "Updating" /\ cmd.type = "Dump"
    \/ st.tag = "Paused" /\ cmd.type = "Resume"
    \/ st.tag = "Paused" /\ cmd.type = "Stop"
    \/ st.tag = "Paused" /\ cmd.type = "Dump"
    \/ st.tag = "Error" /\ cmd.type = "Restore"

\* ------------------------------------------------------------ durable files
MemForestBin == "mem_forest.bin"
PollardBin == "pollard.bin"
BlockHashesBin == "block_hashes.bin"
FileNames == {MemForestBin, PollardBin, BlockHashesBin}

\* file contents: no file, a zero-length file (File::create), a partly written
\* file, or complete data of some kind in version v
Versions == 0..MaxVer
File(k, v) == [kind |-> k, v |-> v]
Absent == File("absent", 0)
Empty == File("empty", 0)
Torn == File("torn", 0)
Contents == {Absent, Empty, Torn} \cup {File(k, v) : k \in {"forest", "pollard", "hashes"}, v \in Versions}
Exists(c) == c # Absent

NoFiles == [f \in FileNames |-> Absent]
NoOp == [kind |-> "None", pre |-> NoFiles, presnap |-> NoFiles, cancelled |-> "no",
         rpc |-> "none", dels |-> "none", mem |-> 0]
NoPrune == [pc |-> "none", v |-> 0]
NoDump == [ok |-> FALSE, wd |-> NoFiles, op |-> 0]

\* the file variables while the command interleavings are explored
FsParked ==
    /\ wd = NoFiles
    /\ snap = NoFiles
    /\ fstate = Idle
    /\ fpc = "idle"
    /\ fop = NoOp
    /\ fres = "none"
    /\ prune = NoPrune
    /\ dumped = NoDump
    /\ nops = 0
    /\ nmut = 0

\* Pollard::new(): no roots, no leaves, empty map
NewPollard == [nodes |-> <<>>, roots |-> <<>>, leaves |-> 0, map |-> {}, panic |-> FALSE]
NoHist == [n |-> 0, deleted |-> {}, clean |-> TRUE, mixed |-> FALSE]
NoCall == [op |-> "none"]
NoProof == [op |-> "none"]
NoZk == [op |-> "none"]

\* the block variables while the service, the files or the accumulator are
\* explored
NoBlock == [height |-> 0, txdata |-> <<>>]
NoLeafHashes == [op |-> "none"]
BlkParked ==
    /\ blk = NoBlock
    /\ lh = NoLeafHashes

\* the accumulator variables while the service or the files are explored
AccParked ==
    /\ acc = NewPollard
    /\ hist = NoHist
    /\ call = NoCall
    /\ pf = NoProof
    /\ zk = NoZk

\* the command-side variables while the file operations are explored
SvcParked ==
    /\ state = Idle
    /\ queue = <<>>
    /\ spc = [c \in Callers |-> "idle"]
    /\ cur = [c \in Callers |-> NoCmd]
    /\ verdict = "none"
    /\ wpc = "recv"
    /\ running = None
    /\ jobs = [j \in JobIds |-> "free"]
    /\ pausers = {}
    /\ fs_lock = "free"
    /\ lastEv = "none"
    /\ pausedKind = NoCmd
    /\ nsent = 0

\* --------------------------------------------------------------------- Init
Init ==
    /\ FsParked
    /\ AccParked
    /\ BlkParked
    /\ state = Idle
    /\ queue = <<>>
    /\ spc = [c \in Callers |-> "idle"]
    /\ cur = [c \in Callers |-> NoCmd]
    /\ verdict = "none"
    /\ wpc = "recv"
    /\ running = None
    /\ jobs = [j \in JobIds |-> "free"]
    /\ pausers = {}
    /\ fs_lock = "free"
    /\ lastEv = "none"
    /\ pausedKind = NoCmd
    /\ nsent = 0

\* ------------------------------------------------------------ Context::send
\* history: which acceptance was the last one
Accepted(cmd) ==
    IF cmd.type = "Pause" THEN "accPause"
    ELSE IF cmd.type = "Resume" THEN "accResume"
    ELSE "accOther"

\* The write-lock block after the check changes the state only for Build and
\* Update; for the other commands it is a step without effect, folded into the
\* check: Restore goes on to mark the state, the rest go on to tx.send.
AfterValidate(cmd) ==
    IF cmd.type \in {"Build", "Update"} THEN "flip"
    ELSE IF cmd.type = "Restore" THEN "mark"
    ELSE "enqueue"

\* `if !self.is_valid_transition(&cmd).await { return Err(InvalidState) }`
SendValidate(c, cmd) ==
    /\ spc[c] = "idle"
    /\ IF IsValidTransition(state, cmd)
       THEN /\ nsent < MaxSends
            /\ spc' = [spc EXCEPT ![c] = AfterValidate(cmd)]
            /\ cur' = [cur EXCEPT ![c] = cmd]
            /\ verdict' = "valid"
            /\ lastEv' = Accepted(cmd)
            /\ nsent' = nsent + 1
       ELSE /\ verdict' = "InvalidState"
            /\ UNCHANGED <<spc, cur, lastEv, nsent>>
    /\ UNCHANGED <<state, queue, wpc, running, jobs, pausers, fs_lock, pausedKind>>

\* the block holding `self.state.write().await` that flips Idle early
FlipState(cmd, st) ==
    IF cmd.type = "Build" /\ st = Idle THEN Building
    ELSE IF cmd.type = "Update" /\ st = Idle THEN Updating(cmd.h)
    ELSE st

SendFlip(c) ==
    /\ spc[c] = "flip"
    /\ state' = FlipState(cur[c], state)
    /\ spc' = [spc EXCEPT ![c] = "enqueue"]
    /\ UNCHANGED <<queue, cur, verdict, wpc, running, jobs, pausers, fs_lock,
                   lastEv, pausedKind, nsent>>

\* Restore: `*self.state.write().await = Updating { height: 0 }`, then restore_sync starts
SendRestoreMark(c) ==
    /\ spc[c] = "mark"
    /\ state' = Updating(0)
    /\ spc' = [spc EXCEPT ![c] = "restoring"]
    /\ UNCHANGED <<queue, cur, verdict, wpc, running, jobs, pausers, fs_lock,
                   lastEv, pausedKind, nsent>>

\* restore_sync returns; its result is published; send returns Ok(())
SendRestoreDone(c) ==
    /\ spc[c] = "restoring"
    /\ \E ok \in BOOLEAN : state' = IF ok THEN Idle ELSE Error
    /\ spc' = [spc EXCEPT ![c] = "idle"]
    /\ cur' = [cur EXCEPT ![c] = NoCmd]
    /\ UNCHANGED <<queue, verdict, wpc, running, jobs, pausers, fs_lock, lastEv, pausedKind, nsent>>

\* `self.tx.send(cmd).await`
Enqueue(q, cmd, from) == Append(q, [type |-> cmd.type, h |-> cmd.h, from |-> from])

SendEnqueue(c) ==
    /\ spc[c] = "enqueue"
    /\ Len(queue) < ChannelCap
    /\ Len(queue) < MaxQueue
    /\ queue' = Enqueue(queue, cur[c], c)
    /\ spc' = [spc EXCEPT ![c] = "idle"]
    /\ cur' = [cur EXCEPT ![c] = NoCmd]
    /\ UNCHANGED <<state, verdict, wpc, running, jobs, pausers, fs_lock, lastEv, pausedKind, nsent>>

\* ------------------------------------------------- worker of Context::new
FreeJobs == {j \in JobIds : jobs[j] = "free"}
MinFree == CHOOSE j \in FreeJobs : \A k \in FreeJobs : j <= k
Finished(j) == jobs[j] \in {"ok", "err"}
Active(j) == jobs[j] \in {"run", "cancelled"}

\* CancellationToken::cancel on a job's token
Cancel(js, j) == [js EXCEPT ![j] = IF @ = "run" THEN "cancelled" ELSE @]
\* a JoinHandle is dropped: the task is detached; a finished one is gone
DropHandle(js, j) == [js EXCEPT ![j] = IF @ \in {"ok", "err"} THEN "free" ELSE @]

\* the poll at the end of the loop body reads only the worker's own `running`:
\* with running = None it falls through to rx.recv()
AfterHandler(r) == IF r = None THEN "recv" ELSE "poll"

Receives(t) == wpc = "recv" /\ queue # <<>> /\ Head(queue).type = t

\* Command::Build / Command::Update: `if running.is_some() { continue; }`, else
\* publish the state and spawn run_with_cancel(...)
StartJob(st, kind) ==
    IF running # None
    THEN UNCHANGED <<state, jobs, running, wpc>>
    ELSE /\ FreeJobs # {}
         /\ state' = st
         /\ jobs' = [jobs EXCEPT ![MinFree] = "run"]
         /\ running' = RunningJob(MinFree, kind)
         /\ wpc' = "poll"

WorkerBuild ==
    /\ Receives("Build")
    /\ queue' = Tail(queue)
    /\ StartJob(Building, Cmd("Build", 0))
    /\ UNCHANGED <<spc, cur, verdict, pausers, fs_lock, lastEv, pausedKind, nsent>>

WorkerUpdate ==
    /\ Receives("Update")
    /\ queue' = Tail(queue)
    /\ StartJob(Updating(Head(queue).h), Cmd("Update", Head(queue).h))
    /\ UNCHANGED <<spc, cur, verdict, pausers, fs_lock, lastEv, pausedKind, nsent>>

\* Command::Pause: `if let Some(job) = running.take()`: cancel, and spawn a task
\* that joins the job and then publishes Paused
WorkerPause ==
    /\ Receives("Pause")
    /\ queue' = Tail(queue)
    /\ IF running # None
       THEN /\ jobs' = Cancel(jobs, running.id)
            /\ pausers' = pausers \cup {running.id}
            /\ pausedKind' = running.kind
            /\ running' = None
       ELSE UNCHANGED <<jobs, pausers, pausedKind, running>>
    /\ UNCHANGED <<state, spc, cur, verdict, wpc, fs_lock, lastEv, nsent>>

\* Command::Resume: `continue` unless Paused; `if let Some(prev) = running.take()`
\* re-enqueue prev.kind through tx_bg
ResumeQueue(q, r) ==
    IF r # None THEN Enqueue(Tail(q), r.kind, Worker) ELSE Tail(q)

WorkerResume ==
    /\ Receives("Resume")
    /\ IF state # Paused
       THEN /\ queue' = Tail(queue)
            /\ UNCHANGED <<jobs, running, pausedKind>>
       ELSE /\ queue' = ResumeQueue(queue, running)
            /\ jobs' = IF running # None THEN DropHandle(jobs, running.id) ELSE jobs
            /\ running' = None
            /\ pausedKind' = NoCmd
    /\ UNCHANGED <<state, spc, cur, verdict, wpc, pausers, fs_lock, lastEv, nsent>>

\* Command::Stop: cancel the running job, running = None, publish Idle
WorkerStop ==
    /\ Receives("Stop")
    /\ queue' = Tail(queue)
    /\ jobs' = IF running # None THEN DropHandle(Cancel(jobs, running.id), running.id)
               ELSE jobs
    /\ running' = None
    /\ state' = Idle
    /\ pausedKind' = NoCmd
    /\ lastEv' = IF Tail(queue) = <<>> /\ \A c \in Callers : spc[c] = "idle"
                 THEN "didStop" ELSE lastEv
    /\ UNCHANGED <<spc, cur, verdict, wpc, pausers, fs_lock, nsent>>

\* Command::Dump: `let _g = lock.lock().await;` then perform_dump starts
WorkerDumpBegin ==
    /\ Receives("Dump")
    /\ fs_lock = "free"
    /\ queue' = Tail(queue)
    /\ fs_lock' = "worker"
    /\ wpc' = "dumping"
    /\ UNCHANGED <<state, spc, cur, verdict, running, jobs, pausers, lastEv, pausedKind, nsent>>

\* perform_dump returns: on Err publish Error; the guard is dropped
WorkerDumpEnd ==
    /\ wpc = "dumping"
    /\ \E ok \in BOOLEAN : state' = IF ok THEN state ELSE Error
    /\ fs_lock' = "free"
    /\ wpc' = AfterHandler(running)
    /\ UNCHANGED <<queue, spc, cur, verdict, running, jobs, pausers, lastEv, pausedKind, nsent>>

\* `if running...is_finished()`: take the job and publish its result
WorkerPoll ==
    /\ wpc = "poll"
    /\ wpc' = "recv"
    /\ IF running # None /\ Finished(running.id)
       THEN /\ state' = IF jobs[running.id] = "ok" THEN Idle ELSE Error
            /\ jobs' = [jobs EXCEPT ![running.id] = "free"]
            /\ running' = None
       ELSE UNCHANGED <<state, jobs, running>>
    /\ UNCHANGED <<queue, spc, cur, verdict, pausers, fs_lock, lastEv, pausedKind, nsent>>

\* ------------------------------------------------------------ spawned tasks
\* run_with_cancel: the job task ends, with Ok(()) or the job's own result
Referenced(j) == running.id = j \/ j \in pausers

JobFinish(j) ==
    /\ Active(j)
    /\ \E r \in {"ok", "err"} :
          jobs' = [jobs EXCEPT ![j] = IF Referenced(j) THEN r ELSE "free"]
    /\ UNCHANGED <<state, queue, spc, cur, verdict, wpc, running, pausers, fs_lock,
                   lastEv, pausedKind, nsent>>

\* the task of the Pause handler: `let _ = job.join.await; *st.write().await = Paused`
PauserDone(j) ==
    /\ j \in pausers
    /\ Finished(j)
    /\ state' = Paused
    /\ pausers' = pausers \ {j}
    /\ jobs' = [jobs EXCEPT ![j] = "free"]
    /\ UNCHANGED <<queue, spc, cur, verdict, wpc, running, fs_lock, lastEv, pausedKind, nsent>>

\* --------------------------------------------------------------------- Next
\* The worker's Command::Restore arm (lines 202-220) is not an action: send
\* returns from its own Restore branch before tx.send, and Resume re-enqueues
\* only Build/Update, so no Restore ever reaches the channel.
Next ==
    \/ \E c \in Callers, cmd \in Command : SendValidate(c, cmd) /\ UNCHANGED <<fsVars, accVars, blkVars>>
    \/ \E c \in Callers : SendFlip(c) /\ UNCHANGED <<fsVars, accVars, blkVars>>
    \/ \E c \in Callers : SendRestoreMark(c) /\ UNCHANGED <<fsVars, accVars, blkVars>>
    \/ \E c \in Callers : SendRestoreDone(c) /\ UNCHANGED <<fsVars, accVars, blkVars>>
    \/ \E c \in Callers : SendEnqueue(c) /\ UNCHANGED <<fsVars, accVars, blkVars>>
    \/ WorkerBuild /\ UNCHANGED <<fsVars, accVars, blkVars>>
    \/ WorkerUpdate /\ UNCHANGED <<fsVars, accVars, blkVars>>
    \/ WorkerPause /\ UNCHANGED <<fsVars, accVars, blkVars>>
    \/ WorkerResume /\ UNCHANGED <<fsVars, accVars, blkVars>>
    \/ WorkerStop /\ UNCHANGED <<fsVars, accVars, blkVars>>
    \/ WorkerDumpBegin /\ UNCHANGED <<fsVars, accVars, blkVars>>
    \/ WorkerDumpEnd /\ UNCHANGED <<fsVars, accVars, blkVars>>
    \/ WorkerPoll /\ UNCHANGED <<fsVars, accVars, blkVars>>
    \/ \E j \in JobIds : JobFinish(j) /\ UNCHANGED <<fsVars, accVars, blkVars>>
    \/ \E j \in JobIds : PauserDone(j) /\ UNCHANGED <<fsVars, accVars, blkVars>>

Spec == Init /\ [][Next]_vars

TypeOK ==
    /\ state \in ServiceState
    /\ Len(queue) <= MaxQueue
    /\ \A c \in Callers : spc[c] \in {"idle", "flip", "mark", "restoring", "enqueue"}
    /\ wpc \in {"recv", "dumping", "poll"}
    /\ \A j \in JobIds : jobs[j] \in {"free", "run", "cancelled", "ok", "err"}
    /\ pausers \subseteq JobIds
    /\ fs_lock \in {"free", "worker"}

\* ===================================================================
\* Claims about the service state machine
\* ===================================================================

\* nothing is in progress: every send has returned, the channel is empty, the
\* worker waits in rx.recv(), and no job or joining task is still running
Quiet ==
    /\ \A c \in Callers : spc[c] = "idle"
    /\ queue = <<>>
    /\ wpc = "recv"
    /\ pausers = {}
    /\ \A j \in JobIds : ~Active(j)

\* a send of Build or Update that passed the check and has not returned yet
StartAccepted(c) == spc[c] \in {"flip", "enqueue"} /\ cur[c].type \in {"Build", "Update"}

\* C1: of two Build/Update submissions that race (their sends overlap in time),
\* at most one is accepted; the other one gets InvalidState.
C1_OneRacingStartAccepted ==
    ~ \E c1, c2 \in Callers : c1 # c2 /\ StartAccepted(c1) /\ StartAccepted(c2)

\* the transition table of the specification, as (state, command) pairs
C2_Table ==
    {<<"Idle", "Build">>, <<"Idle", "Update">>, <<"Idle", "Dump">>, <<"Idle", "Restore">>,
     <<"Building", "Pause">>, <<"Building", "Stop">>, <<"Building", "Dump">>,
     <<"Updating", "Pause">>, <<"Updating", "Stop">>, <<"Updating", "Dump">>,
     <<"Paused", "Resume">>, <<"Paused", "Stop">>, <<"Paused", "Dump">>,
     <<"Error", "Restore">>}

\* C2: the check of send answers InvalidState exactly when (published state,
\* command) is not a pair of the table, and a rejected command changes neither
\* the published state nor the command queue.
\* (a check step is a step that changes the verdict or the count of acceptances)
C2_RejectExactlyOffTable ==
    [][(verdict' # verdict \/ nsent' # nsent) =>
       \A c \in Callers, cmd \in Command :
         SendValidate(c, cmd) =>
            /\ (verdict' = "InvalidState") <=> (<<state.tag, cmd.type>> \notin C2_Table)
            /\ (verdict' = "InvalidState") => (state' = state /\ queue' = queue)]_vars

\* a command was rejected while the service was Paused after accepted commands
C2_Witness == verdict = "InvalidState" /\ state = Paused /\ nsent >= 2

\* C3: at every moment at most one build/update job is executing.
C3_AtMostOneJobRuns == Cardinality({j \in JobIds : Active(j)}) <= 1

\* C4: once the job held by the worker has ended and no further command is
\* submitted (nothing is in progress any more), the published state has left
\* Building/Updating: Idle after success, Error after failure.
C4_CompletionPublished ==
    (Quiet /\ running # None /\ Finished(running.id))
        => state = (IF jobs[running.id] = "ok" THEN Idle ELSE Error)

\* C5: when the worker handles a Resume in state Paused after a Pause cancelled
\* a job, it re-enqueues a command of that job's kind and parameters.
C5_ResumeRequeuesPausedKind ==
    [][(WorkerResume /\ state = Paused /\ pausedKind # NoCmd)
         => queue' = Enqueue(Tail(queue), pausedKind, Worker)]_vars

\* C6: a Pause accepted in Building/Updating with no command accepted after it
\* ends with the published state Paused once everything has come to rest.
C6_AcceptedPauseEndsPaused == (Quiet /\ lastEv = "accPause") => state = Paused

\* C7: after the worker processed a Stop with nothing else in flight, and until
\* a later command is accepted, the state is Idle and no job is held.
C7_StopStaysIdle == (lastEv = "didStop") => (state = Idle /\ running = None)

\* the state changes the table (and job completion) allow
C8_TableStep(s, t) ==
    \/ s = Idle /\ t \in ({Building, Error} \cup {Updating(h) : h \in Heights})
    \/ s.tag \in {"Building", "Updating"} /\ t \in {Paused, Idle, Error}
    \/ s = Paused /\ t \in ({Building, Idle} \cup {Updating(h) : h \in Heights})
    \/ s = Error /\ t = Idle

\* C8: every change of the published state is a transition of the table or a
\* job completion; Restore publishes nothing between Idle/Error and Idle/Error,
\* and Error is left only to Idle (through Restore).
C8_OnlyTableTransitions == [][state' # state => C8_TableStep(state, state')]_vars

\* C9: the file copies of a Restore never overlap in time with those of a Dump.
C9_DumpRestoreExclusive ==
    \A c \in Callers : spc[c] = "restoring" => wpc # "dumping"

\* C10: when a caller's Restore takes effect, every command that caller had
\* accepted before it has already taken effect (none still waits in the queue).
C10_SubmissionOrder ==
    \A c \in Callers : spc[c] = "restoring" =>
        \A i \in 1..Len(queue) : queue[i].from # c

\* C11: once send(c1) has returned Ok to a caller, the state that caller's next
\* send is validated against already shows the effect of c1: after an accepted
\* Stop the caller's Build is valid, after an accepted Pause its Resume is.
\* (The caller is back from send and its command is the last one enqueued.)
C11_Returned(c, t) ==
    /\ spc[c] = "idle"
    /\ queue # <<>>
    /\ queue[Len(queue)].from = c
    /\ queue[Len(queue)].type = t
C11_NextSendSeesEffect ==
    \A c \in Callers :
        /\ C11_Returned(c, "Stop") => IsValidTransition(state, Cmd("Build", 0))
        /\ C11_Returned(c, "Pause") => IsValidTransition(state, Cmd("Resume", 0))

\* C30: every Build or Update for which send returned Ok makes the worker
\* start exactly one job with that command's parameters: the worker never
\* discards an accepted Build / Update, so the state never shows Building or
\* Updating{h} on behalf of a command for which no job was started.
C30_WorkerTakesAccepted ==
    /\ wpc = "recv"
    /\ queue # <<>>
    /\ Head(queue).type \in {"Build", "Update"}
    /\ Head(queue).from \in Callers
    /\ queue' = Tail(queue)
C30_AcceptedStartsJob ==
    [][C30_WorkerTakesAccepted =>
          /\ running = None
          /\ running' # None
          /\ running'.kind = Cmd(Head(queue).type, Head(queue).h)
          /\ jobs[running'.id] = "free" /\ jobs'[running'.id] = "run"
          /\ \A j \in JobIds \ {running'.id} : jobs'[j] = jobs[j]]_vars

\* ======================================================================
\* The durable files under one operation at a time: the update and build
\* jobs (updater.rs, builder.rs) run by run_with_cancel, the blocking task
\* that prunes the forest to pollard.bin, dump_sync and restore_sync.
\* ======================================================================
FsInit ==
    /\ SvcParked
    /\ AccParked
    /\ BlkParked
    /\ wd \in {w \in [FileNames -> Contents] :
                 /\ w[MemForestBin] \in {Absent, File("forest", 0)}
                 /\ w[PollardBin] \in {Absent, File("pollard", 0)}
                 /\ w[BlockHashesBin] \in {Absent, File("hashes", 0)}}
    /\ snap = NoFiles
    /\ fstate = Idle
    /\ fpc = "idle"
    /\ fop = NoOp
    /\ fres = "none"
    /\ prune = NoPrune
    /\ dumped = NoDump
    /\ nops = 0
    /\ nmut = 0

\* a new operation of kind k starts on the files as they are now
NewOp(k) == [NoOp EXCEPT !.kind = k, !.pre = wd, !.presnap = snap]

CanStart == fpc = "idle" /\ prune.pc = "none" /\ nops < MaxOps

\* the worker's poll of a finished job, or the end of what Pause / Stop began:
\* the handle of a cancelled job is no longer in `running`, its result is lost
Published(res) ==
    IF fop.cancelled = "Pause" THEN Paused
    ELSE IF fop.cancelled = "Stop" THEN Idle
    ELSE IF res = "ok" THEN Idle ELSE Error

JobEnds(res) ==
    /\ fpc' = "idle"
    /\ fres' = res
    /\ fstate' = Published(res)

\* std::fs::copy(from, to): the source is opened first, the target is then
\* created or truncated and filled; an I/O error may strike before or while
\* the target is written
CopyOutcomes(src, dst) ==
    IF ~Exists(src) THEN {[ok |-> FALSE, to |-> dst]}
    ELSE {[ok |-> TRUE, to |-> src], [ok |-> FALSE, to |-> dst], [ok |-> FALSE, to |-> Torn]}

NextVer(v) == (v + 1) % (MaxVer + 1)

\* ------------------------------------------------------------- update_block
\* Update(h) accepted in Idle: the worker publishes Updating{h} and spawns the job
FsStartUpdate(h) ==
    /\ CanStart
    /\ fstate = Idle
    /\ fpc' = "u_start"
    /\ fstate' = Updating(h)
    /\ fop' = NewOp("Update")
    /\ fres' = "none"
    /\ nops' = nops + 1
    /\ UNCHANGED <<wd, snap, prune, dumped, nmut>>

\* what the RPC section of update_block yields: the environment variables are
\* missing, Client::new fails, an RPC call fails, or the block's spent leaves
\* arrive (none, all of them in the forest, or one that is not in it)
RpcOutcomes ==
    {[rpc |-> "noenv", dels |-> "none"], [rpc |-> "clientErr", dels |-> "none"],
     [rpc |-> "rpcErr", dels |-> "none"], [rpc |-> "ok", dels |-> "none"],
     [rpc |-> "ok", dels |-> "known"], [rpc |-> "ok", dels |-> "unknown"]}

\* derive the deletes, open and deserialize mem_forest.bin, forest.modify
UpdateLoad ==
    /\ fpc = "u_start"
    /\ \E o \in RpcOutcomes :
         IF wd[MemForestBin].kind # "forest" \/ o.dels = "unknown"
         THEN /\ fop' = [fop EXCEPT !.rpc = o.rpc, !.dels = o.dels]
              /\ JobEnds("err")
         ELSE /\ fop' = [fop EXCEPT !.rpc = o.rpc, !.dels = o.dels,
                                   !.mem = IF o.dels = "known"
                                           THEN NextVer(wd[MemForestBin].v)
                                           ELSE wd[MemForestBin].v]
              /\ fpc' = "u_create"
              /\ UNCHANGED <<fres, fstate>>
    /\ UNCHANGED <<wd, snap, prune, dumped, nops, nmut>>

\* File::create("mem_forest.bin") truncates the file in place
UpdateCreate ==
    /\ fpc = "u_create"
    /\ wd' = [wd EXCEPT ![MemForestBin] = Empty]
    /\ fpc' = "u_write"
    /\ UNCHANGED <<snap, fstate, fop, fres, prune, dumped, nops, nmut>>

\* forest.serialize(&mut out), then spawn_blocking(prune_forest_sync)
UpdateSerialize ==
    /\ fpc = "u_write"
    /\ \E ok \in BOOLEAN :
         IF ok
         THEN /\ wd' = [wd EXCEPT ![MemForestBin] = File("forest", fop.mem)]
              /\ prune' = [pc |-> "read", v |-> 0]
              /\ fpc' = "u_await"
              /\ UNCHANGED <<fres, fstate>>
         ELSE /\ wd' = [wd EXCEPT ![MemForestBin] = Torn]
              /\ JobEnds("err")
              /\ UNCHANGED prune
    /\ UNCHANGED <<snap, fop, dumped, nops, nmut>>

\* prune_forest_sync on the blocking pool: fs::read + forest_to_pollard
PruneRead ==
    /\ prune.pc = "read"
    /\ prune' = IF wd[MemForestBin].kind = "forest"
                THEN [pc |-> "create", v |-> wd[MemForestBin].v]
                ELSE [pc |-> "failed", v |-> 0]
    /\ UNCHANGED <<wd, snap, fstate, fpc, fop, fres, dumped, nops, nmut>>

\* fs::File::create("pollard.bin")
PruneCreate ==
    /\ prune.pc = "create"
    /\ wd' = [wd EXCEPT ![PollardBin] = Empty]
    /\ prune' = [prune EXCEPT !.pc = "write"]
    /\ UNCHANGED <<snap, fstate, fpc, fop, fres, dumped, nops, nmut>>

\* pollard.serialize(&mut out)
PruneWrite ==
    /\ prune.pc = "write"
    /\ \E ok \in BOOLEAN :
         IF ok
         THEN /\ wd' = [wd EXCEPT ![PollardBin] = File("pollard", prune.v)]
              /\ prune' = [pc |-> "ok", v |-> 0]
         ELSE /\ wd' = [wd EXCEPT ![PollardBin] = Torn]
              /\ prune' = [pc |-> "failed", v |-> 0]
    /\ UNCHANGED <<snap, fstate, fpc, fop, fres, dumped, nops, nmut>>

\* the .await on the blocking task returns its result to update_block
UpdateJoin ==
    /\ fpc = "u_await"
    /\ prune.pc \in {"ok", "failed"}
    /\ JobEnds(IF prune.pc = "ok" THEN "ok" ELSE "err")
    /\ prune' = NoPrune
    /\ UNCHANGED <<wd, snap, fop, dumped, nops, nmut>>

\* the blocking task ends after its JoinHandle was dropped with the job
PruneDetachedEnd ==
    /\ fpc # "u_await"
    /\ prune.pc \in {"ok", "failed"}
    /\ prune' = NoPrune
    /\ UNCHANGED <<wd, snap, fstate, fpc, fop, fres, dumped, nops, nmut>>

\* -------------------------------------------------------------- start_build
FsStartBuild ==
    /\ CanStart
    /\ fstate = Idle
    /\ fpc' = "b_start"
    /\ fstate' = Building
    /\ fop' = NewOp("Build")
    /\ fres' = "none"
    /\ nops' = nops + 1
    /\ UNCHANGED <<wd, snap, prune, dumped, nmut>>

\* resume_from (here the working snapshot itself) or MemForest::new(), the
\* leaves of the Parquet file, forest.modify(&leaves, &[])
BuildLoad ==
    /\ fpc = "b_start"
    /\ \E resume \in BOOLEAN, parquetOk \in BOOLEAN, pv \in Versions :
         IF (resume /\ wd[MemForestBin].kind # "forest") \/ ~parquetOk
         THEN /\ JobEnds("err")
              /\ UNCHANGED fop
         ELSE /\ fop' = [fop EXCEPT !.mem = IF resume THEN NextVer(wd[MemForestBin].v)
                                           ELSE pv]
              /\ fpc' = "b_create"
              /\ UNCHANGED <<fres, fstate>>
    /\ UNCHANGED <<wd, snap, prune, dumped, nops, nmut>>

BuildCreate ==
    /\ fpc = "b_create"
    /\ wd' = [wd EXCEPT ![MemForestBin] = Empty]
    /\ fpc' = "b_write"
    /\ UNCHANGED <<snap, fstate, fop, fres, prune, dumped, nops, nmut>>

BuildSerialize ==
    /\ fpc = "b_write"
    /\ \E ok \in BOOLEAN :
         /\ wd' = [wd EXCEPT ![MemForestBin] = IF ok THEN File("forest", fop.mem) ELSE Torn]
         /\ JobEnds(IF ok THEN "ok" ELSE "err")
    /\ UNCHANGED <<snap, fop, prune, dumped, nops, nmut>>

\* ---------------------------------------------------------- run_with_cancel
\* the Pause or Stop handler triggers the token of the job that is running;
\* Stop also publishes Idle at once
FsCancel(by) ==
    /\ fop.kind \in {"Update", "Build"}
    /\ fpc # "idle"
    /\ fop.cancelled = "no"
    /\ fop' = [fop EXCEPT !.cancelled = by]
    /\ fstate' = IF by = "Stop" THEN Idle ELSE fstate
    /\ UNCHANGED <<wd, snap, fpc, fres, prune, dumped, nops, nmut>>

\* select! sees the token only where the job future is polled: before its first
\* poll and at the one .await of update_block; the job then returns Ok(()) and
\* the future is dropped, the blocking task is not
CancelObserved ==
    /\ fop.cancelled # "no"
    /\ fpc \in {"u_start", "b_start", "u_await"}
    /\ JobEnds("ok")
    /\ UNCHANGED <<wd, snap, fop, prune, dumped, nops, nmut>>

\* Stop accepted in Paused: nothing runs, the handler publishes Idle
FsStopPaused ==
    /\ fpc = "idle"
    /\ fstate = Paused
    /\ fstate' = Idle
    /\ UNCHANGED <<wd, snap, fpc, fop, fres, prune, dumped, nops, nmut>>

\* ---------------------------------------------------------------- dump_sync
\* Dump accepted (Idle or Paused here, no job running): the worker's handler
OpEnds(res, st) ==
    /\ fpc' = "idle"
    /\ fres' = res
    /\ fstate' = st

FsStartDump ==
    /\ CanStart
    /\ fstate \in {Idle, Paused}
    /\ fpc' = "d_forest"
    /\ fop' = NewOp("Dump")
    /\ fres' = "none"
    /\ dumped' = NoDump
    /\ nops' = nops + 1
    /\ UNCHANGED <<wd, snap, fstate, prune, nmut>>

\* create_dir_all(&dir)?; fs::copy("mem_forest.bin", dir/mem_forest.bin)?
DumpForest ==
    /\ fpc = "d_forest"
    /\ \E o \in CopyOutcomes(wd[MemForestBin], snap[MemForestBin]) :
         /\ snap' = [snap EXCEPT ![MemForestBin] = o.to]
         /\ IF o.ok THEN fpc' = "d_hashes" /\ UNCHANGED <<fres, fstate>>
                    ELSE OpEnds("err", Error)
    /\ UNCHANGED <<wd, fop, prune, dumped, nops, nmut>>

\* if block_hashes.bin exists { let _ = fs::copy(..) }
DumpHashes ==
    /\ fpc = "d_hashes"
    /\ IF Exists(wd[BlockHashesBin])
       THEN \E o \in CopyOutcomes(wd[BlockHashesBin], snap[BlockHashesBin]) :
               snap' = [snap EXCEPT ![BlockHashesBin] = o.to]
       ELSE UNCHANGED snap
    /\ fpc' = "d_pollard"
    /\ UNCHANGED <<wd, fstate, fop, fres, prune, dumped, nops, nmut>>

\* if pollard.bin exists { let _ = fs::copy(..) } else { File::create(dir/pollard.bin)? }
DumpPollard ==
    /\ fpc = "d_pollard"
    /\ IF Exists(wd[PollardBin])
       THEN /\ \E o \in CopyOutcomes(wd[PollardBin], snap[PollardBin]) :
                 snap' = [snap EXCEPT ![PollardBin] = o.to]
            /\ OpEnds("ok", fstate)
            /\ dumped' = [ok |-> TRUE, wd |-> wd, op |-> 0]
       ELSE \E ok \in BOOLEAN :
              IF ok THEN /\ snap' = [snap EXCEPT ![PollardBin] = Empty]
                         /\ OpEnds("ok", fstate)
                         /\ dumped' = [ok |-> TRUE, wd |-> wd, op |-> 0]
                    ELSE /\ OpEnds("err", Error)
                         /\ UNCHANGED <<snap, dumped>>
    /\ UNCHANGED <<wd, fop, prune, nops, nmut>>

\* Dump accepted in Building / Updating (or in Paused / Idle while a cancelled
\* job has not yet ended): the worker's handler takes fs_lock, which neither
\* start_build nor update_block takes, and runs dump_sync while the job task
\* goes on; the three copies see the files as the job has them at the moment
JobRunning == fop.kind \in {"Update", "Build"} /\ fpc # "idle"

DumpDuringJob ==
    /\ JobRunning
    /\ fstate.tag \in {"Idle", "Building", "Updating", "Paused"}
    /\ nops < MaxOps
    /\ nops' = nops + 1
    /\ \E o \in CopyOutcomes(wd[MemForestBin], snap[MemForestBin]),
          h \in IF Exists(wd[BlockHashesBin])
                THEN {x.to : x \in CopyOutcomes(wd[BlockHashesBin], snap[BlockHashesBin])}
                ELSE {snap[BlockHashesBin]},
          p \in IF Exists(wd[PollardBin])
                THEN {[ok |-> TRUE, to |-> x.to] : x \in CopyOutcomes(wd[PollardBin], snap[PollardBin])}
                ELSE {[ok |-> TRUE, to |-> Empty], [ok |-> FALSE, to |-> snap[PollardBin]]} :
         IF ~o.ok
         THEN /\ snap' = [snap EXCEPT ![MemForestBin] = o.to]
              /\ fstate' = Error
              /\ dumped' = [ok |-> FALSE, wd |-> NoFiles, op |-> nops']
         ELSE /\ snap' = [f \in FileNames |->
                            IF f = MemForestBin THEN o.to
                            ELSE IF f = BlockHashesBin THEN h ELSE p.to]
              /\ fstate' = IF p.ok THEN fstate ELSE Error
              /\ dumped' = [ok |-> p.ok, wd |-> wd, op |-> nops']
    /\ UNCHANGED <<wd, fpc, fop, fres, prune, nmut>>

\* C28: a Dump executed while a build or update job is running copies a
\* consistent forest file: what the snapshot holds as mem_forest.bin is the
\* complete file from before the job's write or the complete file after it,
\* never an empty, truncated or partly written one.
C28_DumpedDuringJob == fop.kind \in {"Update", "Build"} /\ dumped.op = nops /\ dumped.ok
C28_ConsistentDump ==
    C28_DumpedDuringJob =>
        snap[MemForestBin] \in {fop.pre[MemForestBin], File("forest", fop.mem)}

\* C29: whenever the published state is Idle, Paused or Error, no build or
\* update job, and no blocking task such a job started, is still running; so a
\* Restore, accepted only in Idle or Error, never overwrites mem_forest.bin or
\* pollard.bin while a job reads or writes them.
C29_PruneTaskRunning == prune.pc \in {"read", "create", "write"}
C29_NoJobWhileResting ==
    fstate.tag \in {"Idle", "Paused", "Error"} => ~JobRunning /\ ~C29_PruneTaskRunning

\* ------------------------------------------------------------- restore_sync
\* Restore accepted in Idle or Error: send publishes Updating{0} and restores
FsStartRestore ==
    /\ CanStart
    /\ fstate \in {Idle, Error}
    /\ fstate' = Updating(0)
    /\ fpc' = "r_check"
    /\ fop' = NewOp("Restore")
    /\ fres' = "none"
    /\ nops' = nops + 1
    /\ UNCHANGED <<wd, snap, prune, dumped, nmut>>

\* if !forest_src.exists() { return Err(NotFound) }
RestoreCheck ==
    /\ fpc = "r_check"
    /\ IF Exists(snap[MemForestBin])
       THEN fpc' = "r_forest" /\ UNCHANGED <<fres, fstate>>
       ELSE OpEnds("err", Error)
    /\ UNCHANGED <<wd, snap, fop, prune, dumped, nops, nmut>>

\* fs::copy(&forest_src, "mem_forest.bin")?
RestoreForest ==
    /\ fpc = "r_forest"
    /\ \E o \in CopyOutcomes(snap[MemForestBin], wd[MemForestBin]) :
         /\ wd' = [wd EXCEPT ![MemForestBin] = o.to]
         /\ IF o.ok THEN fpc' = "r_pollard" /\ UNCHANGED <<fres, fstate>>
                    ELSE OpEnds("err", Error)
    /\ UNCHANGED <<snap, fop, prune, dumped, nops, nmut>>

\* if pollard_src.exists() { let _ = fs::copy(..) }
RestorePollard ==
    /\ fpc = "r_pollard"
    /\ IF Exists(snap[PollardBin])
       THEN \E o \in CopyOutcomes(snap[PollardBin], wd[PollardBin]) :
               wd' = [wd EXCEPT ![PollardBin] = o.to]
       ELSE UNCHANGED wd
    /\ fpc' = "r_hashes"
    /\ UNCHANGED <<snap, fstate, fop, fres, prune, dumped, nops, nmut>>

\* if bh.exists() { let _ = fs::copy(..) }; Ok(()) and send publishes Idle
RestoreHashes ==
    /\ fpc = "r_hashes"
    /\ IF Exists(snap[BlockHashesBin])
       THEN \E o \in CopyOutcomes(snap[BlockHashesBin], wd[BlockHashesBin]) :
               wd' = [wd EXCEPT ![BlockHashesBin] = o.to]
       ELSE UNCHANGED wd
    /\ OpEnds("ok", Idle)
    /\ UNCHANGED <<snap, fop, prune, dumped, nops, nmut>>

\* a working file is removed or damaged from outside the service while it
\* rests; what the last operation left behind is history from then on
FsMutate(f, c) ==
    /\ fpc = "idle"
    /\ prune.pc = "none"
    /\ nmut < MaxMutations
    /\ wd[f] # c
    /\ wd' = [wd EXCEPT ![f] = c]
    /\ nmut' = nmut + 1
    /\ fop' = NoOp
    /\ fres' = "none"
    /\ UNCHANGED <<snap, fstate, fpc, prune, dumped, nops>>

FsNext ==
    \/ \E h \in Heights : FsStartUpdate(h) /\ UNCHANGED <<svcVars, accVars, blkVars>>
    \/ UpdateLoad /\ UNCHANGED <<svcVars, accVars, blkVars>>
    \/ UpdateCreate /\ UNCHANGED <<svcVars, accVars, blkVars>>
    \/ UpdateSerialize /\ UNCHANGED <<svcVars, accVars, blkVars>>
    \/ PruneRead /\ UNCHANGED <<svcVars, accVars, blkVars>>
    \/ PruneCreate /\ UNCHANGED <<svcVars, accVars, blkVars>>
    \/ PruneWrite /\ UNCHANGED <<svcVars, accVars, blkVars>>
    \/ UpdateJoin /\ UNCHANGED <<svcVars, accVars, blkVars>>
    \/ PruneDetachedEnd /\ UNCHANGED <<svcVars, accVars, blkVars>>
    \/ FsStartBuild /\ UNCHANGED <<svcVars, accVars, blkVars>>
    \/ BuildLoad /\ UNCHANGED <<svcVars, accVars, blkVars>>
    \/ BuildCreate /\ UNCHANGED <<svcVars, accVars, blkVars>>
    \/ BuildSerialize /\ UNCHANGED <<svcVars, accVars, blkVars>>
    \/ \E by \in {"Pause", "Stop"} : FsCancel(by) /\ UNCHANGED <<svcVars, accVars, blkVars>>
    \/ CancelObserved /\ UNCHANGED <<svcVars, accVars, blkVars>>
    \/ FsStopPaused /\ UNCHANGED <<svcVars, accVars, blkVars>>
    \/ FsStartDump /\ UNCHANGED <<svcVars, accVars, blkVars>>
    \/ DumpForest /\ UNCHANGED <<svcVars, accVars, blkVars>>
    \/ DumpHashes /\ UNCHANGED <<svcVars, accVars, blkVars>>
    \/ DumpPollard /\ UNCHANGED <<svcVars, accVars, blkVars>>
    \/ DumpDuringJob /\ UNCHANGED <<svcVars, accVars, blkVars>>
    \/ FsStartRestore /\ UNCHANGED <<svcVars, accVars, blkVars>>
    \/ RestoreCheck /\ UNCHANGED <<svcVars, accVars, blkVars>>
    \/ RestoreForest /\ UNCHANGED <<svcVars, accVars, blkVars>>
    \/ RestorePollard /\ UNCHANGED <<svcVars, accVars, blkVars>>
    \/ RestoreHashes /\ UNCHANGED <<svcVars, accVars, blkVars>>
    \/ \E f \in FileNames, c \in {Absent, Torn} : FsMutate(f, c) /\ UNCHANGED <<svcVars, accVars, blkVars>>

FsSpec == FsInit /\ [][FsNext]_vars

FsTypeOK ==
    /\ wd \in [FileNames -> Contents]
    /\ snap \in [FileNames -> Contents]
    /\ fstate \in ServiceState
    /\ fres \in {"none", "ok", "err"}
    /\ fop.kind \in {"None", "Update", "Build", "Dump", "Restore"}
    /\ prune.pc \in {"none", "read", "create", "write", "ok", "failed"}
    /\ nops \in 0..MaxOps
    /\ nmut \in 0..MaxMutations

\* C12: a job cancelled by Pause or Stop does not mutate durable state: from
\* the cancellation on, mem_forest.bin and pollard.bin each hold what they held
\* before the job started.
C12_CancelledJob == fop.kind \in {"Update", "Build"} /\ fop.cancelled # "no"
C12_CancelLeavesFiles ==
    C12_CancelledJob =>
        /\ wd[MemForestBin] = fop.pre[MemForestBin]
        /\ wd[PollardBin] = fop.pre[PollardBin]

\* C13: when the chain RPC fails while Update(h) derives the deletes (client
\* creation or an RPC call returns an error), the job fails: it does not go on
\* to rewrite mem_forest.bin, it ends with an error, the service ends in Error
\* and mem_forest.bin is as it was before the update.
C13_RpcFailed == fop.kind = "Update" /\ fop.rpc \in {"clientErr", "rpcErr"}
C13_RpcFailureFailsUpdate ==
    C13_RpcFailed =>
        /\ fpc = "idle"
        /\ wd[MemForestBin] = fop.pre[MemForestBin]
        /\ fop.cancelled = "no" => (fres = "err" /\ fstate = Error)

\* C14: after a Dump that succeeded, any changes to the working files and a
\* Restore that reports success, every file that existed at dump time has its
\* dump-time content again and the service is Idle.
C14_Restored == fop.kind = "Restore" /\ fpc = "idle" /\ fres = "ok" /\ dumped.ok
C14_DumpRestoreRoundTrip ==
    C14_Restored =>
        /\ \A f \in FileNames : Exists(dumped.wd[f]) => wd[f] = dumped.wd[f]
        /\ fstate = Idle

\* C15: a Restore from a directory without the forest file fails, the service
\* ends in Error and no working file is modified; a Dump or Restore that fails
\* leaves none of its target files overwritten or partly replaced.
C15_FailedOpLeavesTargets ==
    (fpc = "idle" /\ fres = "err") =>
        /\ fop.kind = "Restore" => (wd = fop.pre /\ fstate = Error)
        /\ fop.kind = "Dump" => snap = fop.presnap

\* ======================================================================
\* The accumulator: rustreexo's Pollard (rustreexo/src/accumulator/pollard.rs)
\* under modify, prove / verify and the fake_modify -> get_stripped_pollard
\* -> serialize -> deserialize -> modify pipeline of the input generator and
\* the circuit.
\*
\* Nodes live in an arena `nodes` and are named by their index in it: an
\* Rc<Node> or Weak<Node> is an index, Nil is None, so that two pollards
\* that share nodes (Pollard::clone copies the Rc's, not the nodes) see each
\* other's writes, as they do in the program.
\* ======================================================================

\* ------------------------------------------------------------------ bounds
\* leaves added to the accumulator in one explored run
MaxLeaves == 4
\* hashes in the adds of one modify call
MaxAdds == 2
\* hashes in the deletes of one modify call
MaxDels == 2

\* ------------------------------------------------------------ BitcoinNodeHash
\* BitcoinNodeHash::Empty; a leaf hash is <<i>>; a parent hash is the pair of
\* its children's hashes, so that two hashes are equal exactly when they were
\* computed from the same leaves in the same shape (SHA-256 without collisions)
EmptyHash == <<>>
LeafHash(i) == <<i>>
parent_hash(left, right) == <<left, right>>
is_empty(h) == h = EmptyHash
\* the derived Ord, as far as the program uses it: between two leaf hashes
HashLess(a, b) == Len(a) = 1 /\ Len(b) = 1 /\ a[1] < b[1]

Nil == 0
NewNode(ty, data, left, right) ==
    [ty |-> ty, parent |-> Nil, data |-> data, left |-> left, right |-> right,
     used |-> TRUE]

\* HashMap<BitcoinNodeHash, Weak<Node>>
MapHas(map, h) == \E e \in map : e.h = h
MapGet(map, h) == (CHOOSE e \in map : e.h = h).node
MapRemove(map, h) == {e \in map : e.h # h}
MapInsert(map, h, node) == MapRemove(map, h) \cup {[h |-> h, node |-> node]}

Last(seq) == seq[Len(seq)]
Front(seq) == SubSeq(seq, 1, Len(seq) - 1)
Panicked(p) == [p EXCEPT !.panic = TRUE]

\* ------------------------------------------------------- position arithmetic
RECURSIVE Pow2(_)
Pow2(k) == IF k = 0 THEN 1 ELSE 2 * Pow2(k - 1)

\* rows of the forest that holds n leaves: the bit length of n - 1
tree_rows(n) ==
    IF n = 0 THEN 0
    ELSE CHOOSE r \in 0..(n + 1) : Pow2(r) >= n /\ (r = 0 \/ Pow2(r - 1) < n)

\* (leaves >> row) & 1
is_root_populated(row, leaves) == (leaves \div Pow2(row)) % 2 = 1

\* position of the root of the tree of `row` rows in a forest of `leaves`
\* leaves and `forest_rows` rows
root_position(leaves, row, forest_rows) ==
    LET mask == Pow2(forest_rows + 1) - 1
        before == leaves - (leaves % Pow2(row + 1))
    IN ((before \div Pow2(row)) + mask * Pow2(forest_rows + 1 - row))
           % Pow2(forest_rows + 1)

left_child(pos, forest_rows) == (2 * pos) % Pow2(forest_rows + 1)
right_child(pos, forest_rows) == left_child(pos, forest_rows) + 1

\* the row of a position: the number of leading one bits, counted from bit
\* forest_rows down
RECURSIVE detect_row_from(_, _, _)
detect_row_from(pos, bit, row) ==
    IF bit >= 0 /\ (pos \div Pow2(bit)) % 2 = 1
    THEN detect_row_from(pos, bit - 1, row + 1) ELSE row
detect_row(pos, forest_rows) == detect_row_from(pos, forest_rows, 0)

\* (pos >> 1) | (1 << forest_rows)
parent_position(pos, forest_rows) == (pos \div 2) + Pow2(forest_rows)
\* pos ^ 1
sibling_position(pos) == IF pos % 2 = 0 THEN pos + 1 ELSE pos - 1
\* pos & 1 == 0
is_left_niece(pos) == pos % 2 = 0

is_root_position(pos, leaves, forest_rows) ==
    LET row == detect_row(pos, forest_rows) IN
    /\ is_root_populated(row, leaves)
    /\ root_position(leaves, row, forest_rows) = pos

\* which tree a position is in, how many rows below that tree's root, and
\* the path from the root (bit r set: go right at row r); the program gets
\* the path inverted and undoes that with is_left_niece
RECURSIVE detect_offset_from(_, _, _, _, _, _)
detect_offset_from(marker, tr, nr, bigger_trees, leaves, steps) ==
    LET tree_size == IF (leaves \div Pow2(tr)) % 2 = 1 THEN Pow2(tr) ELSE 0 IN
    IF steps > 0 /\ tr >= 0 /\ (marker * Pow2(nr)) % Pow2(tr + 1) >= tree_size
    THEN IF tr = 0
         THEN [tree |-> bigger_trees, branch_len |-> 0, marker |-> marker, ok |-> FALSE]
         ELSE IF tree_size # 0
         THEN IF marker < tree_size
              THEN [tree |-> bigger_trees, branch_len |-> 0, marker |-> marker, ok |-> FALSE]
              ELSE detect_offset_from(marker - tree_size, tr - 1, nr,
                                      bigger_trees + 1, leaves, steps - 1)
         ELSE detect_offset_from(marker, tr - 1, nr, bigger_trees, leaves, steps - 1)
    ELSE [tree |-> bigger_trees, branch_len |-> tr - nr, marker |-> marker,
          ok |-> tr >= nr]

detect_offset(pos, leaves) ==
    LET tr == tree_rows(leaves) IN
    detect_offset_from(pos, tr, detect_row(pos, tr), 0, leaves, tr + 1)

\* one row of get_proof_positions: the siblings to supply and the parents
\* to compute, for the sorted positions of that row
RECURSIVE get_proof_positions_row(_, _, _)
get_proof_positions_row(row_targets, leaves, forest_rows) ==
    IF row_targets = <<>> THEN [proof |-> <<>>, parents |-> <<>>]
    ELSE
    LET node == row_targets[1] IN
    IF is_root_position(node, leaves, forest_rows)
    THEN get_proof_positions_row(Tail(row_targets), leaves, forest_rows)
    ELSE IF Len(row_targets) >= 2 /\ row_targets[2] = sibling_position(node)
    THEN LET rest == get_proof_positions_row(Tail(Tail(row_targets)), leaves,
                                             forest_rows)
         IN [proof |-> rest.proof,
             parents |-> <<parent_position(node, forest_rows)>> \o rest.parents]
    ELSE LET rest == get_proof_positions_row(Tail(row_targets), leaves, forest_rows)
         IN [proof |-> <<sibling_position(node)>> \o rest.proof,
             parents |-> <<parent_position(node, forest_rows)>> \o rest.parents]

RECURSIVE get_proof_positions_from(_, _, _, _)
get_proof_positions_from(computed, row, leaves, forest_rows) ==
    IF row > forest_rows THEN <<>>
    ELSE
    LET row_targets == SelectSeq(computed,
                                 LAMBDA x : detect_row(x, forest_rows) = row)
        here == get_proof_positions_row(row_targets, leaves, forest_rows)
    IN here.proof
         \o get_proof_positions_from(
                SortSeq(computed \o here.parents, LAMBDA a, b : a < b),
                row + 1, leaves, forest_rows)

\* the positions whose hashes a batch proof of `targets` holds, row by row
get_proof_positions(targets, leaves, forest_rows) ==
    get_proof_positions_from(SortSeq(targets, LAMBDA a, b : a < b), 0, leaves,
                             forest_rows)

\* ----------------------------------------------------------------- get_pos
\* the walk from a node to the top of its tree: left_child_indicator,
\* rows_to_top and the node the walk ends at
RECURSIVE get_pos_climb(_, _, _, _)
get_pos_climb(p, node, indicator, rows_to_top) ==
    LET parent == p.nodes[node].parent IN
    IF parent = Nil
    THEN [top |-> node, indicator |-> indicator, rows |-> rows_to_top, ok |-> TRUE]
    ELSE IF p.nodes[parent].left = Nil
    THEN [top |-> node, indicator |-> indicator, rows |-> rows_to_top, ok |-> FALSE]
    ELSE get_pos_climb(p, parent,
             2 * indicator
               + (IF p.nodes[p.nodes[parent].left].data = p.nodes[node].data
                  THEN 0 ELSE 1),
             rows_to_top + 1)

\* "Find the root of the tree that the node belongs to": the row of the
\* first populated row below forest_rows whose root has the data of `top`,
\* 0 if there is none, -1 when root_idx runs below the first root
RECURSIVE get_pos_root_row(_, _, _, _, _)
get_pos_root_row(p, top, row, root_idx, forest_rows) ==
    IF row >= forest_rows THEN 0
    ELSE IF is_root_populated(row, p.leaves)
    THEN IF root_idx < 1 THEN -1
         ELSE IF p.nodes[p.roots[root_idx]].data = p.nodes[top].data THEN row
         ELSE get_pos_root_row(p, top, row + 1, root_idx - 1, forest_rows)
    ELSE get_pos_root_row(p, top, row + 1, root_idx, forest_rows)

RECURSIVE get_pos_descend(_, _, _, _)
get_pos_descend(pos, indicator, rows_to_top, forest_rows) ==
    IF rows_to_top = 0 THEN pos
    ELSE get_pos_descend(
             IF indicator % 2 = 0 THEN left_child(pos, forest_rows)
                                  ELSE right_child(pos, forest_rows),
             indicator \div 2, rows_to_top - 1, forest_rows)

\* the position of a node, -1 if an unwrap() on the way panics
get_pos(p, node) ==
    LET up == get_pos_climb(p, node, 0, 0)
        forest_rows == tree_rows(p.leaves)
        root_row == get_pos_root_row(p, up.top, 0, Len(p.roots), forest_rows)
    IN IF ~up.ok \/ p.roots = <<>> \/ root_row = -1 THEN -1
       ELSE get_pos_descend(root_position(p.leaves, root_row, forest_rows),
                            up.indicator, up.rows, forest_rows)

\* --------------------------------------------------------------- del_single
\* recompute_hashes leaving every hash as it is
recompute_hashes_None(p, node) == p

RECURSIVE recompute_hashes(_, _)
recompute_hashes(p, node) ==
    LET n == p.nodes[node]
        p1 == IF n.left # Nil /\ n.right # Nil
              THEN [p EXCEPT !.nodes[node].data =
                        parent_hash(p.nodes[n.left].data, p.nodes[n.right].data)]
              ELSE p
    IN IF n.parent # Nil THEN recompute_hashes(p1, n.parent) ELSE p1

\* self.roots.iter().position(|x| x.data == data): 0 if there is none
RootPosition(p, data) ==
    IF \E i \in 1..Len(p.roots) : p.nodes[p.roots[i]].data = data
    THEN CHOOSE i \in 1..Len(p.roots) :
             /\ p.nodes[p.roots[i]].data = data
             /\ \A j \in 1..(i - 1) : p.nodes[p.roots[j]].data # data
    ELSE 0

\* "Deleting a root": the root becomes a fresh empty Branch
\* del_single taking the deleted root out of roots
del_single_root_RootRemoved(p, node) ==
    [p EXCEPT !.roots = SelectSeq(@, LAMBDA r : r # node)]

del_single_root(p, node) ==
    LET pos == RootPosition(p, p.nodes[node].data) IN
    IF pos = 0 THEN Panicked(p)
    ELSE [p EXCEPT !.nodes = Append(@, NewNode("Branch", EmptyHash, Nil, Nil)),
                   !.roots[pos] = Len(p.nodes) + 1]

\* del_single with the grandparent left pointing at the parent
del_single_lift_KeepParent(p, parent, sibling, grandparent) == p

\* the sibling takes the parent's place in the grandparent
del_single_lift(p, parent, sibling, grandparent) ==
    LET gp == p.nodes[grandparent] IN
    IF gp.left = Nil THEN Panicked(p)
    ELSE IF p.nodes[gp.left].data = p.nodes[parent].data
    THEN recompute_hashes(
             [p EXCEPT !.nodes[gp.left].used = TRUE,
                       !.nodes[grandparent].left = sibling], sibling)
    ELSE IF gp.right = Nil THEN Panicked(p)
    ELSE recompute_hashes(
             [p EXCEPT !.nodes[gp.right].used = TRUE,
                       !.nodes[grandparent].right = sibling], sibling)

del_single(p, node) ==
    LET parent == p.nodes[node].parent IN
    IF parent = Nil THEN del_single_root(p, node)
    ELSE
    LET p1 == [p EXCEPT !.nodes[parent].used = TRUE]
        me == p1.nodes[parent].left
    IN IF me = Nil THEN p1
       ELSE
       LET sibling == IF p1.nodes[me].data = p1.nodes[node].data
                      THEN p1.nodes[parent].right ELSE p1.nodes[parent].left
       IN IF sibling = Nil THEN p1
          ELSE
          LET grandparent == p1.nodes[parent].parent
              p2 == [p1 EXCEPT !.nodes[sibling].used = TRUE,
                               !.nodes[sibling].parent = grandparent]
              p3 == IF grandparent # Nil
                    THEN [p2 EXCEPT !.nodes[grandparent].used = TRUE] ELSE p2
          IN IF grandparent # Nil
             THEN del_single_lift(p3, parent, sibling, grandparent)
             ELSE LET pos == RootPosition(p3, p3.nodes[parent].data) IN
                  IF pos = 0 THEN Panicked(p3)
                  ELSE [p3 EXCEPT !.roots[pos] = sibling]

\* ---------------------------------------------------------------------- del
\* pos.sort(): by position, then by hash
PosLess(a, b) == a[1] < b[1] \/ (a[1] = b[1] /\ HashLess(a[2], b[2]))

\* the targets the map knows, each with its position, sorted
del_targets(p, targets) ==
    LET found == SelectSeq(targets, LAMBDA t : MapHas(p.map, t))
        pos == [i \in 1..Len(found) |->
                   <<get_pos(p, MapGet(p.map, found[i])), found[i]>>]
    IN SortSeq(pos, PosLess)

RECURSIVE del_loop(_, _)
del_loop(p, sorted) ==
    IF sorted = <<>> THEN [p |-> p, res |-> "Ok"]
    ELSE LET target == sorted[1][2] IN
         IF MapHas(p.map, target)
         THEN LET p1 == del_single([p EXCEPT !.map = MapRemove(@, target)],
                                   MapGet(p.map, target))
              IN IF p1.panic THEN [p |-> p1, res |-> "Panic"]
                 ELSE del_loop(p1, Tail(sorted))
         ELSE [p |-> p, res |-> "Err"]

del(p, targets) ==
    LET sorted == del_targets(p, targets) IN
    IF \E i \in 1..Len(sorted) : sorted[i][1] = -1
    THEN [p |-> Panicked(p), res |-> "Panic"]
    ELSE del_loop(p, sorted)

\* --------------------------------------------------------------- add_single
\* add_single's loop without the short cut for empty roots: an empty root is
\* combined like any other
RECURSIVE add_single_loop_CombineEmpty(_, _, _)
add_single_loop_CombineEmpty(p, node, leaves) ==
    IF leaves % 2 = 0 THEN [p |-> p, node |-> node]
    ELSE IF p.roots = <<>> THEN [p |-> Panicked(p), node |-> node]
    ELSE
    LET root == Last(p.roots)
        new_node == Len(p.nodes) + 1
        p1 == [p EXCEPT
                 !.roots = Front(@),
                 !.nodes = Append(@, NewNode("Branch",
                               parent_hash(p.nodes[root].data, p.nodes[node].data),
                               root, node))]
        p2 == [p1 EXCEPT !.nodes[root].parent = new_node,
                         !.nodes[node].parent = new_node]
    IN add_single_loop_CombineEmpty(p2, new_node, leaves \div 2)

RECURSIVE add_single_loop(_, _, _)
add_single_loop(p, node, leaves) ==
    IF leaves % 2 = 0 THEN [p |-> p, node |-> node]
    ELSE IF p.roots = <<>> THEN [p |-> Panicked(p), node |-> node]
    ELSE
    LET root == Last(p.roots)
        p1 == [p EXCEPT !.roots = Front(@), !.nodes[root].used = TRUE]
    IN IF is_empty(p1.nodes[root].data)
       THEN add_single_loop(p1, node, leaves \div 2)
       ELSE
       LET new_node == Len(p1.nodes) + 1
           p2 == [p1 EXCEPT
                    !.nodes = Append(@, NewNode("Branch",
                                  parent_hash(p1.nodes[root].data,
                                              p1.nodes[node].data),
                                  root, node))]
           p3 == [p2 EXCEPT !.nodes[root].parent = new_node,
                            !.nodes[node].parent = new_node]
       IN add_single_loop(p3, new_node, leaves \div 2)

\* add_single combining an Empty root like any other root
add_single_CombineEmpty(p, value) ==
    LET node == Len(p.nodes) + 1
        p1 == [p EXCEPT !.nodes = Append(@, NewNode("Leaf", value, Nil, Nil)),
                        !.map = MapInsert(@, value, node)]
        done == add_single_loop_CombineEmpty(p1, node, p1.leaves)
    IN [done.p EXCEPT !.roots = Append(@, done.node), !.leaves = @ + 1]

add_single(p, value) ==
    LET node == Len(p.nodes) + 1
        p1 == [p EXCEPT !.nodes = Append(@, NewNode("Leaf", value, Nil, Nil)),
                        !.map = MapInsert(@, value, node)]
        done == add_single_loop(p1, node, p1.leaves)
    IN [done.p EXCEPT !.roots = Append(@, done.node), !.leaves = @ + 1]

RECURSIVE add(_, _)
add(p, values) ==
    IF values = <<>> THEN p ELSE add(add_single(p, values[1]), Tail(values))

\* ------------------------------------------------------------------- modify
\* self.del(del)?; self.add(add); Ok(())
modify(p, adds, dels) ==
    LET d == del(p, dels) IN
    IF d.res # "Ok" THEN d
    ELSE LET a == add(d.p, adds) IN
         [p |-> a, res |-> IF a.panic THEN "Panic" ELSE "Ok"]

\* what a caller can observe of a pollard: get_roots() hashes, leaves and the
\* hashes of the leaf index
get_roots(p) == [i \in 1..Len(p.roots) |-> p.nodes[p.roots[i]].data]
Index(p) == {e.h : e \in p.map}
Observable(p) == [roots |-> get_roots(p), leaves |-> p.leaves, index |-> Index(p)]

\* ------------------------------------------------------------- the arena
\* the nodes a pollard keeps alive (strong references: roots, left, right),
\* root by root, each node before its children
RECURSIVE Owned(_, _)
Owned(p, node) ==
    IF node = Nil THEN <<>>
    ELSE <<node>> \o Owned(p, p.nodes[node].left) \o Owned(p, p.nodes[node].right)

RECURSIVE OwnedAll(_, _)
OwnedAll(p, i) ==
    IF i > Len(p.roots) THEN <<>> ELSE Owned(p, p.roots[i]) \o OwnedAll(p, i + 1)

\* Rc drops what nothing owns any more: the arena holds the owned nodes
\* only, named in the order OwnedAll lists them (a node's name carries no
\* meaning, only which node a reference leads to)
Dropped(p) ==
    LET alive == OwnedAll(p, 1)
        name(node) == IF node = Nil THEN Nil
                      ELSE CHOOSE i \in 1..Len(alive) : alive[i] = node
    IN [p EXCEPT
          !.nodes = [i \in 1..Len(alive) |->
                        [p.nodes[alive[i]] EXCEPT !.parent = name(@),
                                                  !.left = name(@),
                                                  !.right = name(@)]],
          !.roots = [i \in 1..Len(p.roots) |-> name(p.roots[i])],
          !.map = {[h |-> e.h, node |-> name(e.node)] : e \in p.map}]

\* ----------------------------------------------------------------- AccSpec
AccInit ==
    /\ SvcParked
    /\ FsParked
    /\ BlkParked
    /\ acc = NewPollard
    /\ hist = NoHist
    /\ call = NoCall
    /\ pf = NoProof
    /\ zk = NoZk

\* the hashes a caller may name in deletes: every hash the run may ever add,
\* so that a list can hold hashes not added yet, deleted before, or repeated
DelHashes == {LeafHash(i) : i \in 1..MaxLeaves}
DelLists == UNION {[1..m -> DelHashes] : m \in 0..MaxDels}

\* every hash of dels is indexed and none is given twice
ValidDels(p, dels) ==
    /\ \A i \in 1..Len(dels) : dels[i] \in Index(p)
    /\ \A i, j \in 1..Len(dels) : i # j => dels[i] # dels[j]

\* the hashes of a set of leaf hashes as a list, smallest first
RECURSIVE HashList(_)
HashList(S) ==
    IF S = {} THEN <<>>
    ELSE LET h == CHOOSE x \in S : \A y \in S : ~HashLess(y, x)
         IN <<h>> \o HashList(S \ {h})

\* pollard.modify(&adds, &dels): the next k fresh hashes are added. A run is
\* explored up to and including its first call with an unknown or repeated
\* delete. `call` keeps of the call what a caller can tell: whether some
\* delete was not indexed, the result, and whether roots, leaves and index
\* are what they were.
AccModify(k, dels) ==
    /\ ~acc.panic
    /\ hist.clean
    /\ pf = NoProof /\ zk = NoZk
    /\ hist.n + k <= MaxLeaves
    /\ LET adds == [i \in 1..k |-> LeafHash(hist.n + i)]
           r == modify(acc, adds, dels)
           valid == ValidDels(acc, dels)
       IN /\ acc' = Dropped(r.p)
          /\ call' = [op |-> "modify",
                      unknown |-> \E i \in 1..Len(dels) : dels[i] \notin Index(acc),
                      res |-> r.res,
                      unchanged |-> Observable(r.p) = Observable(acc)]
          /\ hist' = [n |-> IF r.res = "Ok" THEN hist.n + k ELSE hist.n,
                      deleted |-> IF valid /\ r.res = "Ok"
                                  THEN hist.deleted \cup {dels[i] : i \in 1..Len(dels)}
                                  ELSE hist.deleted,
                      clean |-> hist.clean /\ valid /\ r.res = "Ok",
                      mixed |-> hist.mixed
                                \/ (r.res = "Ok" /\ k > 0 /\ hist.deleted # {})]
    /\ UNCHANGED <<pf, zk>>

\* C16: modify returns an error whenever some hash of deletes is not in the
\* leaf index; it never returns Ok while ignoring such a delete.
C16_UnknownDeleteIsError ==
    (call.op = "modify" /\ call.unknown) => call.res = "Err"

\* C17: whenever modify returns an error the accumulator has the root
\* hashes, the leaf count and the leaf index it had before the call.
C17_ErrorLeavesAccumulator ==
    (call.op = "modify" /\ call.res = "Err") => call.unchanged

\* a freshly empty accumulator after modify(all adds in their original order,
\* []) followed by modify([], all deleted hashes)
FreshRun ==
    LET added == modify(NewPollard, [i \in 1..hist.n |-> LeafHash(i)], <<>>).p
    IN modify(added, <<>>, HashList(hist.deleted))

\* C18: after successful modify calls over pairwise distinct hashes whose
\* deletes were all present, the root hashes equal those of a fresh
\* accumulator given all adds and then all deletes, however adds and deletes
\* were interleaved and in whatever order the deletes were given.
C18_PathIndependence ==
    (call.op = "modify" /\ hist.clean) =>
        /\ FreshRun.res = "Ok"
        /\ get_roots(acc) = get_roots(FreshRun.p)

\* C18: leaves were added after earlier ones were deleted, and several
\* leaves are gone
C18_Witness ==
    /\ call.op = "modify" /\ hist.clean /\ hist.mixed
    /\ Cardinality(hist.deleted) >= 2
    /\ hist.n >= 3

\* ---------------------------------------------------------- prove / verify
\* the node at a position: the walk from the root of its tree, Nil where the
\* walk leaves the tree ("node {} not found")
RECURSIVE grab_node_walk(_, _, _, _)
grab_node_walk(p, n, row, marker) ==
    IF row < 0 \/ n = Nil THEN n
    ELSE grab_node_walk(p,
             IF is_left_niece(1 - ((marker \div Pow2(row)) % 2))
             THEN p.nodes[n].right ELSE p.nodes[n].left,
             row - 1, marker)

\* the node at pos: Nil for Err, -1 where roots[tree] is out of bounds
grab_node(p, pos) ==
    LET off == detect_offset(pos, p.leaves) IN
    IF ~off.ok \/ off.tree + 1 > Len(p.roots) THEN -1
    ELSE grab_node_walk(p, p.roots[off.tree + 1], off.branch_len - 1, off.marker)

\* Proof::calculate_hashes, one row: the (position, hash) pairs of the row,
\* sorted, give roots, or parents with the next node or the next proof hash
RECURSIVE calculate_hashes_row(_, _, _, _)
calculate_hashes_row(row_nodes, hashes, leaves, forest_rows) ==
    IF row_nodes = <<>>
    THEN [ok |-> TRUE, roots |-> <<>>, parents |-> <<>>, hashes |-> hashes]
    ELSE
    LET pos == row_nodes[1][1]
        hash == row_nodes[1][2]
        up == parent_position(pos, forest_rows)
    IN IF is_root_position(pos, leaves, forest_rows)
       THEN LET rest == calculate_hashes_row(Tail(row_nodes), hashes, leaves,
                                             forest_rows)
            IN [rest EXCEPT !.roots = <<hash>> \o @]
       ELSE IF Len(row_nodes) >= 2 /\ is_left_niece(pos)
               /\ row_nodes[2][1] = pos + 1
       THEN LET rest == calculate_hashes_row(Tail(Tail(row_nodes)), hashes,
                                             leaves, forest_rows)
            IN [rest EXCEPT !.parents =
                   <<<<up, parent_hash(hash, row_nodes[2][2])>>>> \o @]
       ELSE IF hashes = <<>>
       THEN [ok |-> FALSE, roots |-> <<>>, parents |-> <<>>, hashes |-> hashes]
       ELSE LET rest == calculate_hashes_row(Tail(row_nodes), Tail(hashes),
                                             leaves, forest_rows)
            IN [rest EXCEPT !.parents =
                   <<<<up, IF is_left_niece(pos)
                           THEN parent_hash(hash, hashes[1])
                           ELSE parent_hash(hashes[1], hash)>>>> \o @]

NodeLess(a, b) == a[1] < b[1]

RECURSIVE calculate_hashes_from(_, _, _, _, _)
calculate_hashes_from(nodes, hashes, row, leaves, forest_rows) ==
    IF row > forest_rows THEN [ok |-> TRUE, roots |-> <<>>]
    ELSE
    LET row_nodes == SelectSeq(nodes,
                               LAMBDA x : detect_row(x[1], forest_rows) = row)
        here == calculate_hashes_row(row_nodes, hashes, leaves, forest_rows)
    IN IF ~here.ok THEN [ok |-> FALSE, roots |-> <<>>]
       ELSE LET above == calculate_hashes_from(
                             SortSeq(nodes \o here.parents, NodeLess),
                             here.hashes, row + 1, leaves, forest_rows)
            IN [ok |-> above.ok, roots |-> here.roots \o above.roots]

\* the calculated roots are found, in order, among the roots taken from the
\* last one to the first
RECURSIVE MatchRoots(_, _)
MatchRoots(calculated, roots) ==
    IF calculated = <<>> THEN TRUE
    ELSE IF roots = <<>> THEN FALSE
    ELSE IF calculated[1] = Last(roots)
    THEN MatchRoots(Tail(calculated), Front(roots))
    ELSE MatchRoots(calculated, Front(roots))

\* Proof::verify(del_hashes, roots, leaves): "true", "false" or "Err"
proof_verify(proof, del_hashes, roots, leaves) ==
    IF proof.targets = <<>> THEN "true"
    ELSE
    LET nodes == SortSeq([i \in 1..Len(proof.targets) |->
                             <<proof.targets[i], del_hashes[i]>>], PosLess)
        calc == calculate_hashes_from(nodes, proof.hashes, 0, leaves,
                                      tree_rows(leaves))
    IN IF ~calc.ok THEN "Err"
       ELSE IF MatchRoots(calc.roots, roots) THEN "true" ELSE "false"

\* Pollard::prove: the positions of the targets in the order given and the
\* hashes at the positions get_proof_positions asks for
prove(p, targets) ==
    IF \E i \in 1..Len(targets) : ~MapHas(p.map, targets[i])
    THEN [res |-> "Err", targets |-> <<>>, hashes |-> <<>>]
    ELSE
    LET positions == [i \in 1..Len(targets) |-> get_pos(p, MapGet(p.map, targets[i]))]
    IN IF \E i \in 1..Len(positions) : positions[i] = -1
       THEN [res |-> "Panic", targets |-> <<>>, hashes |-> <<>>]
       ELSE
       LET needed == get_proof_positions(positions, p.leaves, tree_rows(p.leaves))
           found == [i \in 1..Len(needed) |-> grab_node(p, needed[i])]
       IN IF \E i \in 1..Len(found) : found[i] \in {Nil, -1}
          THEN [res |-> "Panic", targets |-> <<>>, hashes |-> <<>>]
          ELSE [res |-> "Ok", targets |-> positions,
                hashes |-> [i \in 1..Len(found) |-> p.nodes[found[i]].data]]

verify(p, proof, del_hashes) == proof_verify(proof, del_hashes, get_roots(p), p.leaves)

\* p.prove(&T) followed by p.verify(&proof, &T), for a set T of indexed hashes
AccProve(T) ==
    /\ ~acc.panic
    /\ pf = NoProof /\ zk = NoZk
    /\ call.op = "modify"
    /\ LET targets == HashList(T)
           proof == prove(acc, targets)
       IN pf' = [op |-> "prove", targets |-> targets, res |-> proof.res,
                 verified |-> IF proof.res = "Ok" THEN verify(acc, proof, targets)
                              ELSE "none"]
    /\ UNCHANGED <<acc, hist, call, zk>>

\* C19: for every accumulator state reached by modify calls and every subset
\* T of the hashes in its leaf index, prove(T) succeeds and
\* verify(prove(T), T) returns true.
C19_ProveVerifies ==
    pf.op = "prove" => (pf.res = "Ok" /\ pf.verified = "true")

\* ------------------------------------------------------------- fake_modify
\* link_pollards: for every node of self that other has in the same place,
\* an entry from the node (a copy of it: the key keeps the data of now) to
\* other's node; the keys compare by data and a later insert of an equal
\* key replaces the value
\* body(v), with v evaluated once however often body uses it
With(v, body(_)) == CHOOSE y \in {body(x) : x \in {v}} : TRUE

RECURSIVE link_pollards_inner(_, _, _)
link_pollards_inner(p, first, second) ==
    LET f == p.nodes[first]
        g == p.nodes[second]
    IN <<[data |-> f.data, node |-> second]>>
         \o (IF f.left # Nil /\ g.left # Nil
             THEN link_pollards_inner(p, f.left, g.left) ELSE <<>>)
         \o (IF f.right # Nil /\ g.right # Nil
             THEN link_pollards_inner(p, f.right, g.right) ELSE <<>>)

RECURSIVE link_pollards_from(_, _, _, _)
link_pollards_from(p, self_roots, other_roots, i) ==
    IF i > Len(self_roots) \/ i > Len(other_roots) THEN <<>>
    ELSE link_pollards_inner(p, self_roots[i], other_roots[i])
           \o link_pollards_from(p, self_roots, other_roots, i + 1)

link_pollards(p, other_roots) ==
    LET inserts == link_pollards_from(p, p.roots, other_roots, 1) IN
    {inserts[i] : i \in {j \in 1..Len(inserts) :
                           \A k \in (j + 1)..Len(inserts) :
                               inserts[k].data # inserts[j].data}}

\* if let Some(link) = link_map.get(&node) { link.upgrade().unwrap().used.set(true) }
LinkMark(p, link_map, node) ==
    LET data == p.nodes[node].data IN
    IF \E e \in link_map : e.data = data
    THEN [p EXCEPT !.nodes[(CHOOSE e \in link_map : e.data = data).node].used = TRUE]
    ELSE p

\* fake_get_pos setting no used flag at all
fake_get_pos_marks_None(p, node) == p

\* the used flags fake_get_pos sets on its way up: the node, every parent
\* and every parent's left child
RECURSIVE fake_get_pos_marks(_, _)
fake_get_pos_marks(p, node) ==
    LET p1 == [p EXCEPT !.nodes[node].used = TRUE]
        up == p.nodes[node].parent
    IN IF up = Nil \/ p.nodes[up].left = Nil THEN p1
       ELSE fake_get_pos_marks(
                [p1 EXCEPT !.nodes[up].used = TRUE,
                           !.nodes[p.nodes[up].left].used = TRUE], up)

\* fake_get_pos computes the position as get_pos does
fake_get_pos(p, node) == [p |-> fake_get_pos_marks(p, node), pos |-> get_pos(p, node)]

fake_del_single_lift(p, link_map, parent, sibling, grandparent) ==
    LET gp == p.nodes[grandparent] IN
    IF gp.left = Nil THEN Panicked(p)
    ELSE IF p.nodes[gp.left].data = p.nodes[parent].data
    THEN LET p1 == LinkMark([p EXCEPT !.nodes[gp.left].used = TRUE], link_map, gp.left)
         IN recompute_hashes([p1 EXCEPT !.nodes[grandparent].left = sibling], sibling)
    ELSE IF gp.right = Nil THEN Panicked(p)
    ELSE LET p1 == LinkMark([p EXCEPT !.nodes[gp.right].used = TRUE], link_map, gp.right)
         IN recompute_hashes([p1 EXCEPT !.nodes[grandparent].right = sibling], sibling)

fake_del_single(p, link_map, node) ==
    LET parent == p.nodes[node].parent IN
    IF parent = Nil THEN del_single_root(p, node)
    ELSE
    LET p1 == LinkMark([p EXCEPT !.nodes[parent].used = TRUE], link_map, parent)
        me == p1.nodes[parent].left
    IN IF me = Nil THEN p1
       ELSE
       LET sibling == IF p1.nodes[me].data = p1.nodes[node].data
                      THEN p1.nodes[parent].right ELSE p1.nodes[parent].left
       IN IF sibling = Nil THEN p1
          ELSE
          LET grandparent == p1.nodes[parent].parent
              p2 == LinkMark([p1 EXCEPT !.nodes[sibling].used = TRUE], link_map, sibling)
              p3 == IF grandparent # Nil
                    THEN LinkMark([p2 EXCEPT !.nodes[grandparent].used = TRUE],
                                  link_map, grandparent)
                    ELSE p2
              p4 == [p3 EXCEPT !.nodes[sibling].parent = grandparent]
          IN IF grandparent # Nil
             THEN fake_del_single_lift(p4, link_map, parent, sibling, grandparent)
             ELSE LET pos == RootPosition(p4, p4.nodes[parent].data) IN
                  IF pos = 0 THEN Panicked(p4)
                  ELSE [p4 EXCEPT !.roots[pos] = sibling]

RECURSIVE fake_del_marks(_, _)
fake_del_marks(p, found) ==
    IF found = <<>> THEN p
    ELSE fake_del_marks(fake_get_pos(p, MapGet(p.map, found[1])).p, Tail(found))

\* a target the map no longer has is passed over
RECURSIVE fake_del_loop(_, _, _)
fake_del_loop(p, link_map, sorted) ==
    IF sorted = <<>> \/ p.panic THEN p
    ELSE LET target == sorted[1][2] IN
         IF MapHas(p.map, target)
         THEN fake_del_loop(
                  fake_del_single([p EXCEPT !.map = MapRemove(@, target)],
                                  link_map, MapGet(p.map, target)),
                  link_map, Tail(sorted))
         ELSE fake_del_loop(p, link_map, Tail(sorted))

fake_del(p, link_map, targets) ==
    LET found == SelectSeq(targets, LAMBDA t : MapHas(p.map, t))
        sorted == del_targets(p, targets)
    IN IF \E i \in 1..Len(sorted) : sorted[i][1] = -1 THEN Panicked(p)
       ELSE fake_del_loop(fake_del_marks(p, found), link_map, sorted)

RECURSIVE fake_add_single_loop(_, _, _, _)
fake_add_single_loop(p, link_map, node, leaves) ==
    IF leaves % 2 = 0 THEN [p |-> p, node |-> node]
    ELSE IF p.roots = <<>> THEN [p |-> Panicked(p), node |-> node]
    ELSE
    LET root == Last(p.roots)
        p1 == LinkMark([p EXCEPT !.roots = Front(@), !.nodes[root].used = TRUE],
                       link_map, root)
    IN IF is_empty(p1.nodes[root].data)
       THEN fake_add_single_loop(p1, link_map, node, leaves \div 2)
       ELSE
       LET new_node == Len(p1.nodes) + 1
           p2 == [p1 EXCEPT
                    !.nodes = Append(@, NewNode("Branch",
                                  parent_hash(p1.nodes[root].data,
                                              p1.nodes[node].data),
                                  root, node))]
           p3 == LinkMark([p2 EXCEPT !.nodes[root].parent = new_node], link_map, root)
           p4 == LinkMark([p3 EXCEPT !.nodes[node].parent = new_node], link_map, node)
       IN fake_add_single_loop(p4, link_map, new_node, leaves \div 2)

fake_add_single(p, link_map, value) ==
    LET node == Len(p.nodes) + 1
        p1 == [p EXCEPT !.nodes = Append(@, NewNode("Leaf", value, Nil, Nil)),
                        !.map = MapInsert(@, value, node)]
        done == fake_add_single_loop(p1, link_map, node, p1.leaves)
    IN [done.p EXCEPT !.roots = Append(@, done.node), !.leaves = @ + 1]

RECURSIVE fake_add(_, _, _)
fake_add(p, link_map, values) ==
    IF values = <<>> THEN p
    ELSE fake_add(fake_add_single(p, link_map, values[1]), link_map, Tail(values))

\* let new_pollard = self.clone(): the clone has the roots, leaves and map
\* self has now and shares every node with self; fake_del and fake_add then
\* work on self. `self` is the caller's pollard after the call, `new_pollard`
\* what the call returns: the old roots and map over the nodes as they are
\* after the call.
fake_modify(p, adds, dels) ==
    LET link_map == link_pollards(p, p.roots)
        after == fake_add(fake_del(p, link_map, dels), link_map, adds)
    IN [self |-> after,
        new_pollard |-> [after EXCEPT !.roots = p.roots, !.leaves = p.leaves,
                                      !.map = p.map]]

\* ---------------------------------------------------- get_stripped_pollard
\* a copy of a node (Node::clone): same data, flags and references
CopyNode(p, node) == [p EXCEPT !.nodes = Append(@, p.nodes[node])]

\* strip_unused letting no child go
strip_unused_None(p, node) == p

\* strip_unused on the copy `node`: a child that is not used is let go, a
\* used child is replaced by a stripped copy of itself
RECURSIVE strip_unused(_, _)
strip_unused(p, node) ==
    LET left == p.nodes[node].left IN
    With(IF left = Nil THEN p
         ELSE IF ~p.nodes[left].used THEN [p EXCEPT !.nodes[node].left = Nil]
         ELSE LET new_left == Len(p.nodes) + 1
              IN [strip_unused(CopyNode(p, left), new_left)
                    EXCEPT !.nodes[node].left = new_left],
         LAMBDA pl :
             LET right == pl.nodes[node].right
             IN IF right = Nil THEN pl
                ELSE IF ~pl.nodes[right].used THEN [pl EXCEPT !.nodes[node].right = Nil]
                ELSE LET new_right == Len(pl.nodes) + 1
                     IN [strip_unused(CopyNode(pl, right), new_right)
                           EXCEPT !.nodes[node].right = new_right])

RECURSIVE get_stripped_pollard_roots(_, _, _)
get_stripped_pollard_roots(p, roots, i) ==
    IF i > Len(roots) THEN [p EXCEPT !.roots = <<>>]
    ELSE LET new_root == Len(p.nodes) + 1
             rest == get_stripped_pollard_roots(
                         strip_unused(CopyNode(p, roots[i]), new_root), roots, i + 1)
         IN [rest EXCEPT !.roots = <<new_root>> \o @]

\* the nodes some pollard in `owners` keeps alive
AliveIn(p, owners) ==
    UNION {{OwnedAll([p EXCEPT !.roots = owners[k]], 1)[i] :
               i \in 1..Len(OwnedAll([p EXCEPT !.roots = owners[k]], 1))} :
           k \in 1..Len(owners)}

\* get_stripped_pollard of the pollard p while the pollards whose roots are
\* in `owners` are alive (a Weak in the map upgrades if some Rc still leads
\* to its node)
get_stripped_pollard(p, owners) ==
    With([p EXCEPT !.nodes = [n \in 1..Len(p.nodes) |->
             IF \E i \in 1..Len(p.roots) : p.roots[i] = n
             THEN [p.nodes[n] EXCEPT !.used = TRUE] ELSE p.nodes[n]]],
         LAMBDA p1 :
             With(AliveIn(p1, owners), LAMBDA alive :
                 [get_stripped_pollard_roots(p1, p1.roots, 1) EXCEPT
                    !.map = {[h |-> p1.nodes[e.node].data, node |-> e.node] :
                                e \in {x \in p1.map :
                                          x.node \in alive /\ p1.nodes[x.node].used}}]))

\* ------------------------------------------------- serialize / deserialize
\* the u64 write_one writes for a node's type
Branch == 0
Leaf == 1
BranchLeftOnly == 2
BranchRightOnly == 3
BranchNoChildren == 4

\* the type write_one writes: a Branch is written by the children it has
WrittenType(p, node) ==
    LET n == p.nodes[node] IN
    IF n.ty = "Leaf" THEN Leaf
    ELSE IF n.left = Nil /\ n.right = Nil THEN BranchNoChildren
    ELSE IF n.right = Nil THEN BranchLeftOnly
    ELSE IF n.left = Nil THEN BranchRightOnly
    ELSE Branch

\* BitcoinNodeHash::write / read: the tag 0 for Empty, 1 for Placeholder, the
\* tag 2 and the 32 bytes for a hash; read returns Err(InvalidData) for any
\* other tag
PlaceholderHash == <<0>>
hash_write(h) == IF is_empty(h) THEN <<0>> ELSE <<2, h>>
hash_read(bytes) ==
    IF bytes[1] = 0 THEN EmptyHash
    ELSE IF bytes[1] = 1 THEN PlaceholderHash
    ELSE bytes[2]
hash_read_ok(bytes) == bytes[1] \in {0, 1, 2}

\* the records write_one writes for a node and the nodes below it
RECURSIVE write_one(_, _)
write_one(p, node) ==
    LET ty == WrittenType(p, node)
        n == p.nodes[node]
    IN <<[ty |-> ty, data |-> hash_write(n.data)]>>
         \o (IF ty # BranchRightOnly /\ n.left # Nil THEN write_one(p, n.left) ELSE <<>>)
         \o (IF ty # BranchLeftOnly /\ n.right # Nil THEN write_one(p, n.right) ELSE <<>>)

\* serialize writing the first root only
serialize_roots_FirstOnly(p, i) ==
    IF i > Len(p.roots) THEN <<>> ELSE write_one(p, p.roots[i])

RECURSIVE serialize_roots(_, _)
serialize_roots(p, i) ==
    IF i > Len(p.roots) THEN <<>>
    ELSE write_one(p, p.roots[i]) \o serialize_roots(p, i + 1)

serialize(p) ==
    [leaves |-> p.leaves, roots_len |-> Len(p.roots), written |-> serialize_roots(p, 1)]

\* _read_one: reads a node and what its type announces below it into the
\* pollard p; `rest` is what is left to read, ok is FALSE when the stream
\* ends early or holds an unknown hash tag (`?` returns the io::Error), and
\* panic is TRUE when the type is none of 0..4 (panic!("Invalid node type"))
RECURSIVE read_one(_, _, _)
read_one(p, ancestor, stream) ==
    IF stream = <<>> \/ ~hash_read_ok(stream[1].data)
    THEN [p |-> p, node |-> Nil, rest |-> stream, ok |-> FALSE, panic |-> FALSE]
    ELSE IF stream[1].ty \notin {Branch, Leaf, BranchLeftOnly, BranchRightOnly,
                                 BranchNoChildren}
    THEN [p |-> p, node |-> Nil, rest |-> stream, ok |-> FALSE, panic |-> TRUE]
    ELSE
    LET ty == stream[1].ty
        data == hash_read(stream[1].data)
        node == Len(p.nodes) + 1
        made == [ty |-> IF ty = Leaf THEN "Leaf" ELSE "Branch", parent |-> ancestor,
                 data |-> data, left |-> Nil, right |-> Nil, used |-> FALSE]
        p1 == [p EXCEPT !.nodes = Append(@, made)]
    IN IF ty = Leaf
       THEN [p |-> [p1 EXCEPT !.map = MapInsert(@, data, node)], node |-> node,
             rest |-> Tail(stream), ok |-> TRUE, panic |-> FALSE]
       ELSE IF is_empty(data)
       THEN [p |-> p1, node |-> node, rest |-> Tail(stream), ok |-> TRUE,
             panic |-> FALSE]
       ELSE
       With(IF ty # BranchRightOnly /\ ty # BranchNoChildren
            THEN read_one(p1, node, Tail(stream))
            ELSE [p |-> p1, node |-> Nil, rest |-> Tail(stream), ok |-> TRUE,
                  panic |-> FALSE],
            LAMBDA l :
                IF ~l.ok THEN l
                ELSE
                With([l.p EXCEPT !.nodes[node].left = l.node], LAMBDA pl :
                    With(IF ty # BranchLeftOnly /\ ty # BranchNoChildren
                         THEN read_one(pl, node, l.rest)
                         ELSE [p |-> pl, node |-> Nil, rest |-> l.rest, ok |-> TRUE,
                               panic |-> FALSE],
                         LAMBDA r :
                             IF ~r.ok THEN r
                             ELSE [p |-> [r.p EXCEPT !.nodes[node].right = r.node],
                                   node |-> node, rest |-> r.rest, ok |-> TRUE,
                                   panic |-> FALSE])))

RECURSIVE deserialize_roots(_, _, _)
deserialize_roots(p, stream, todo) ==
    IF todo = 0 THEN [p |-> p, ok |-> TRUE, panic |-> FALSE]
    ELSE With(read_one(p, Nil, stream), LAMBDA r :
             IF ~r.ok THEN [p |-> p, ok |-> FALSE, panic |-> r.panic]
             ELSE deserialize_roots([r.p EXCEPT !.roots = Append(@, r.node)],
                                    r.rest, todo - 1))

deserialize(bytes) ==
    deserialize_roots([NewPollard EXCEPT !.leaves = bytes.leaves],
                      bytes.written, bytes.roots_len)

\* the nodes of the trees of p
Nodes(p) == {OwnedAll(p, 1)[i] : i \in 1..Len(OwnedAll(p, 1))}

\* what makes the tree at a node: its type, its hash and its children
Structure(n) == [ty |-> n.ty, data |-> n.data, left |-> n.left, right |-> n.right]

\* the node o of `out` stands for the node s of `src` after strip_unused:
\* it has s's hash, it has no child where s has none or has one whose used
\* flag is clear, and a child it has stands for s's child in the same way
RECURSIVE StrippedCopy(_, _, _, _)
StrippedCopy(src, out, s, o) ==
    /\ out.nodes[o].data = src.nodes[s].data
    /\ \A side \in {"left", "right"} :
         \E c \in {IF side = "left" THEN src.nodes[s].left ELSE src.nodes[s].right},
            d \in {IF side = "left" THEN out.nodes[o].left ELSE out.nodes[o].right} :
             IF c = Nil \/ ~src.nodes[c].used THEN d = Nil
             ELSE d # Nil => StrippedCopy(src, out, c, d)

\* get_stripped_pollard(src) = out: the same leaf count and root hashes, the
\* trees of out are stripped copies of the trees of src, and the nodes of
\* src are afterwards what they were but for used flags
StrippedOf(src, out) ==
    /\ out.leaves = src.leaves
    /\ get_roots(out) = get_roots(src)
    /\ \A i \in 1..Len(src.roots) : StrippedCopy(src, out, src.roots[i], out.roots[i])
    /\ \A n \in 1..Len(src.nodes) : Structure(out.nodes[n]) = Structure(src.nodes[n])

\* fake_modify on `before` returned `returned`: the same roots and leaf
\* count, and every node of before's trees with the type, hash and children
\* it had
OnlyMarks(before, returned) ==
    /\ returned.roots = before.roots
    /\ returned.leaves = before.leaves
    /\ \A n \in Nodes(before) : Structure(returned.nodes[n]) = Structure(before.nodes[n])

\* the input generator and the circuit on one block: process_block writes
\* pollard.fake_modify(&utxos, &inputs).get_stripped_pollard() to
\* acc-before.txt; the circuit reads it and calls acc.modify(&utxos, &inputs).
\* `loaded` tells whether the generator's pollard was itself read with
\* Pollard::deserialize (as main does) or is the one modify built. Next to
\* it, modify on the full pollard.
AccCircuit(k, dels, loaded) ==
    /\ ~acc.panic
    /\ pf = NoProof /\ zk = NoZk
    /\ call.op = "modify"
    /\ hist.n + k <= MaxLeaves
    /\ ValidDels(acc, dels)
    /\ \E adds \in {[i \in 1..k |-> LeafHash(hist.n + i)]},
          P \in {IF loaded THEN deserialize(serialize(acc)).p ELSE acc} :
         \E flagged_pollard \in {fake_modify(P, adds, dels)} :
         \E src_nodes \in {Cardinality(Nodes(flagged_pollard.new_pollard))} :
         \E stripped_pollard \in
                {get_stripped_pollard(flagged_pollard.new_pollard,
                                      <<flagged_pollard.self.roots,
                                        flagged_pollard.new_pollard.roots>>)} :
         \E bytes \in {serialize(stripped_pollard)} :
         \E acc_before \in {deserialize(bytes)} :
         \E circuit \in {modify(acc_before.p, adds, dels)},
            full \in {modify(P, adds, dels)} :
             zk' = [op |-> "circuit", loaded |-> loaded, nadds |-> k,
                    ndels |-> Len(dels),
                    written |-> Len(bytes.written),
                    whole |-> Len(serialize(P).written),
                    read |-> acc_before.ok,
                    only_marks |-> OnlyMarks(P, flagged_pollard.new_pollard),
                    stripped |-> StrippedOf(flagged_pollard.new_pollard,
                                            stripped_pollard),
                    kept |-> Len(bytes.written) - bytes.roots_len,
                    let_go |-> src_nodes - Len(bytes.written),
                    res |-> circuit.res, roots |-> get_roots(circuit.p),
                    full_res |-> full.res, full_roots |-> get_roots(full.p)]
    /\ UNCHANGED <<acc, hist, call, pf>>

\* C20: for every pollard P reached by modify calls and every (adds,
\* deletes) with deletes in P's index, modify(adds, deletes) on the pollard
\* read back from the serialised P.fake_modify(adds,
\* deletes).get_stripped_pollard() succeeds and yields exactly the root
\* hashes that modify(adds, deletes) yields on the full pollard P.
C20_StrippedPollardSuffices ==
    zk.op = "circuit" =>
        /\ zk.read
        /\ zk.res = "Ok"
        /\ zk.full_res = "Ok"
        /\ zk.roots = zk.full_roots

\* C20: the generator's pollard was read from a file, the block spends and
\* creates leaves, and the stripped pollard written is smaller than the
\* whole one
C20_Witness ==
    /\ zk.op = "circuit" /\ zk.loaded
    /\ zk.nadds >= 1 /\ zk.ndels >= 1
    /\ zk.written < zk.whole
    /\ zk.res = "Ok"

\* ------------------------------------------------ invariants between calls
\* pollard.modify(&[h], &[]) with a hash h that was added before: add_single
\* asks nothing about the hash, and map.insert replaces the entry of an
\* equal key. The run ends with this call.
AccModifyRepeated(h) ==
    /\ ~acc.panic
    /\ hist.clean
    /\ pf = NoProof /\ zk = NoZk
    /\ acc.leaves < MaxLeaves
    /\ h \in {LeafHash(i) : i \in 1..hist.n}
    /\ \E r \in {modify(acc, <<h>>, <<>>)} :
          /\ acc' = Dropped(r.p)
          /\ call' = [op |-> "modify", unknown |-> FALSE, res |-> r.res,
                      unchanged |-> Observable(r.p) = Observable(acc)]
          /\ hist' = [hist EXCEPT !.clean = FALSE]
    /\ UNCHANGED <<pf, zk>>

RECURSIVE PopCount(_)
PopCount(n) == IF n = 0 THEN 0 ELSE (n % 2) + PopCount(n \div 2)

\* the rows of the trees of a forest of n leaves, the largest first
RECURSIVE RootRows(_, _)
RootRows(n, row) ==
    IF n = 0 THEN <<>>
    ELSE RootRows(n \div 2, row + 1) \o (IF n % 2 = 1 THEN <<row>> ELSE <<>>)

\* the nodes a pollard's roots own, and the leaves among them
LeafNodes(p) == {n \in Nodes(p) : p.nodes[n].ty = "Leaf"}

RECURSIVE Height(_, _)
Height(p, node) ==
    LET l == p.nodes[node].left
        r == p.nodes[node].right
        hl == IF l = Nil THEN 0 ELSE 1 + Height(p, l)
        hr == IF r = Nil THEN 0 ELSE 1 + Height(p, r)
    IN IF hl > hr THEN hl ELSE hr

\* a root per set bit of the leaf count, the largest tree first (the i-th
\* root's tree fits the row of the i-th set bit); a root that owns no leaf
\* is an Empty root, and only such a root is Empty
RootPerBit ==
    /\ Len(acc.roots) = PopCount(acc.leaves)
    /\ \A i \in 1..Len(acc.roots) :
          /\ i <= Len(RootRows(acc.leaves, 0))
          /\ Height(acc, acc.roots[i]) <= RootRows(acc.leaves, 0)[i]
          /\ is_empty(acc.nodes[acc.roots[i]].data)
                <=> Owned(acc, acc.roots[i]) = <<acc.roots[i]>>
                    /\ acc.nodes[acc.roots[i]].ty = "Branch"

\* C24: after any sequence of modify calls there is a root per set bit of
\* the leaf count, the largest tree first, a tree whose leaves were all
\* deleted keeps an Empty root, and no call lowers the leaf count (so that
\* no delete takes a root away).
C24_RootPerBit ==
    /\ []RootPerBit
    /\ [][acc'.leaves >= acc.leaves]_vars

\* C24: four leaves were added and all four deleted: one Empty root is left
\* and the count is four
C24_Witness ==
    /\ call.op = "modify" /\ hist.clean
    /\ acc.leaves = 4 /\ Cardinality(hist.deleted) = 4
    /\ Len(acc.roots) = 1 /\ is_empty(acc.nodes[acc.roots[1]].data)

\* C25: every node with two children and a non-empty hash carries
\* parent_hash of its children's hashes.
C25_InteriorHashes ==
    \A n \in Nodes(acc) :
        (acc.nodes[n].left # Nil /\ acc.nodes[n].right # Nil
           /\ ~is_empty(acc.nodes[n].data))
        => acc.nodes[n].data = parent_hash(acc.nodes[acc.nodes[n].left].data,
                                           acc.nodes[acc.nodes[n].right].data)

\* C25: a leaf was deleted below the top row: its sibling moved up and the
\* hashes above it were recomputed
C25_Witness ==
    /\ call.op = "modify" /\ hist.clean /\ hist.deleted # {}
    /\ \E n \in Nodes(acc) :
          /\ acc.nodes[n].left # Nil /\ acc.nodes[n].right # Nil
          /\ ~is_empty(acc.nodes[n].data)
          /\ Height(acc, n) >= 2
          /\ Height(acc, acc.nodes[n].left) # Height(acc, acc.nodes[n].right)

\* C26: the leaf index is exactly the set of leaves of the forest: every
\* entry leads to a leaf node the roots own that carries the entry's hash,
\* and every such leaf node has its entry.
C26_IndexIsLeaves ==
    /\ \A e \in acc.map :
          e.node \in LeafNodes(acc) /\ acc.nodes[e.node].data = e.h
    /\ \A n \in LeafNodes(acc) : \E e \in acc.map : e.node = n

\* ------------------------------------------------------------- round trip
\* Pollard::deserialize(serialize(p)) against p: the result, the roots in
\* order, the leaf count, the indexed hashes, and prove for every set of
\* indexed hashes
RoundTrip(p) ==
    \E d \in {deserialize(serialize(p))} :
        /\ d.ok
        /\ get_roots(d.p) = get_roots(p)
        /\ d.p.leaves = p.leaves
        /\ Index(d.p) = Index(p)
        /\ \A T \in SUBSET Index(p) :
              prove(d.p, HashList(T)) = prove(p, HashList(T))

from_roots(roots, leaves) == [roots |-> roots, leaves |-> leaves]

\* the hash above two hashes after a deletion: an Empty child leaves the
\* other child's hash in the parent's place
parent_hash_delete(l, r) ==
    IF is_empty(l) THEN r ELSE IF is_empty(r) THEN l ELSE parent_hash(l, r)

\* one row of the hashes after the targets are deleted: the (position, hash)
\* pairs of the row give new roots, or parents with the next node or the
\* next proof hash
RECURSIVE calculate_hashes_delete_row(_, _, _, _)
calculate_hashes_delete_row(row_nodes, hashes, leaves, forest_rows) ==
    IF row_nodes = <<>>
    THEN [ok |-> TRUE, roots |-> <<>>, parents |-> <<>>, hashes |-> hashes]
    ELSE
    LET pos == row_nodes[1][1]
        hash == row_nodes[1][2]
        up == parent_position(pos, forest_rows)
    IN IF is_root_position(pos, leaves, forest_rows)
       THEN With(calculate_hashes_delete_row(Tail(row_nodes), hashes, leaves,
                                             forest_rows),
                 LAMBDA rest : [rest EXCEPT !.roots = <<<<pos, hash>>>> \o @])
       ELSE IF Len(row_nodes) >= 2 /\ is_left_niece(pos)
               /\ row_nodes[2][1] = pos + 1
       THEN With(calculate_hashes_delete_row(Tail(Tail(row_nodes)), hashes,
                                             leaves, forest_rows),
                 LAMBDA rest :
                     [rest EXCEPT !.parents =
                         <<<<up, parent_hash_delete(hash, row_nodes[2][2])>>>> \o @])
       ELSE IF hashes = <<>>
       THEN [ok |-> FALSE, roots |-> <<>>, parents |-> <<>>, hashes |-> hashes]
       ELSE With(calculate_hashes_delete_row(Tail(row_nodes), Tail(hashes),
                                             leaves, forest_rows),
                 LAMBDA rest :
                     [rest EXCEPT !.parents =
                         <<<<up, IF is_left_niece(pos)
                                 THEN parent_hash_delete(hash, hashes[1])
                                 ELSE parent_hash_delete(hashes[1], hash)>>>> \o @])

RECURSIVE calculate_hashes_delete_from(_, _, _, _, _)
calculate_hashes_delete_from(nodes, hashes, row, leaves, forest_rows) ==
    IF row > forest_rows THEN [ok |-> TRUE, roots |-> <<>>]
    ELSE
    With(calculate_hashes_delete_row(
             SelectSeq(nodes, LAMBDA x : detect_row(x[1], forest_rows) = row),
             hashes, leaves, forest_rows),
         LAMBDA here :
             IF ~here.ok THEN [ok |-> FALSE, roots |-> <<>>]
             ELSE With(calculate_hashes_delete_from(
                           SortSeq(nodes \o here.parents, NodeLess),
                           here.hashes, row + 1, leaves, forest_rows),
                       LAMBDA above :
                           [ok |-> above.ok, roots |-> here.roots \o above.roots]))

\* the roots after the targets of the proof are deleted: the root of a tree
\* with a target is the hash calculated for its position
pollard_delete(P, proof) ==
    LET forest_rows == tree_rows(P.leaves)
        nodes == SortSeq([i \in 1..Len(proof.targets) |->
                             <<proof.targets[i], EmptyHash>>], PosLess)
        rows == RootRows(P.leaves, 0)
    IN With(calculate_hashes_delete_from(nodes, proof.hashes, 0, P.leaves,
                                         forest_rows),
            LAMBDA calc :
                [P EXCEPT !.roots = [i \in 1..Len(P.roots) |->
                    LET at == root_position(P.leaves, rows[i], forest_rows) IN
                    IF \E j \in 1..Len(calc.roots) : calc.roots[j][1] = at
                    THEN calc.roots[CHOOSE j \in 1..Len(calc.roots) :
                                        calc.roots[j][1] = at][2]
                    ELSE P.roots[i]]])

\* an addition on the roots: as add_single, on hashes
RECURSIVE pollard_add_loop(_, _, _)
pollard_add_loop(roots, node, leaves) ==
    IF leaves % 2 = 0 THEN Append(roots, node)
    ELSE IF is_empty(Last(roots)) THEN pollard_add_loop(Front(roots), node, leaves \div 2)
    ELSE pollard_add_loop(Front(roots), parent_hash(Last(roots), node), leaves \div 2)

RECURSIVE pollard_add(_, _)
pollard_add(P, adds) ==
    IF adds = <<>> THEN P
    ELSE pollard_add([roots |-> pollard_add_loop(P.roots, adds[1], P.leaves),
                      leaves |-> P.leaves + 1], Tail(adds))

\* Pollard::ingest_proof(proof, del_hashes, remember): ProofInvalid unless
\* the proof's hashes lead from the targets to the roots
ingest_proof(P, proof, del_hashes) ==
    IF Len(proof.targets) = Len(del_hashes)
       /\ proof_verify(proof, del_hashes, P.roots, P.leaves) = "true"
    THEN [res |-> "Ok", p |-> P] ELSE [res |-> "Err", p |-> P]

\* Pollard::modify(adds, del_hashes, proof): the proof is checked, the
\* targets deleted, the adds added
pollard_modify(P, adds, del_hashes, proof) ==
    IF ingest_proof(P, proof, del_hashes).res # "Ok" THEN [res |-> "Err", p |-> P]
    ELSE [res |-> "Ok", p |-> pollard_add(pollard_delete(P, proof), adds)]

\* pollard_after_block(mem_forest_bytes, deletes, new_leaves): "Ok", the
\* step that failed, or "Panic"
pollard_after_block(mem_forest_bytes, deletes, new_leaves) ==
    With(deserialize(mem_forest_bytes), LAMBDA mem :
    IF ~mem.ok THEN "deserialize MemForest failed"
    ELSE
    With(prove(mem.p, deletes), LAMBDA proof :
    IF proof.res = "Panic" THEN "Panic"
    ELSE IF proof.res # "Ok" THEN "prove failed"
    ELSE
    With(pollard_modify(from_roots(get_roots(mem.p), mem.p.leaves),
                        new_leaves, deletes, proof), LAMBDA pollard :
    IF pollard.res # "Ok" THEN "pollard.modify failed"
    ELSE
    With(modify(mem.p, new_leaves, deletes), LAMBDA after :
    IF after.res = "Panic" THEN "Panic"
    ELSE IF after.res # "Ok" THEN "mem.modify failed"
    ELSE IF pollard.p.roots # get_roots(after.p) THEN "root mismatch"
    ELSE "Ok"))))

\* pollard_after_block on the forest as it is, for a set T of its indexed
\* hashes and k new leaves
AccAfterBlock(T, k) ==
    /\ ~acc.panic
    /\ pf = NoProof /\ zk = NoZk
    /\ call.op = "modify"
    /\ hist.n + k <= MaxLeaves
    /\ pf' = [op |-> "pollard_after_block", ndels |-> Cardinality(T), nadds |-> k,
              res |-> pollard_after_block(serialize(acc), HashList(T),
                          [i \in 1..k |-> LeafHash(hist.n + i)])]
    /\ UNCHANGED <<acc, hist, call, zk>>

forest_to_pollard(bytes, deletes) ==
    With(deserialize(bytes), LAMBDA mem :
    IF ~mem.ok THEN [res |-> "deserialize MemForest", roots |-> <<>>, leaves |-> 0]
    ELSE
    With(prove(mem.p, deletes), LAMBDA proof :
    IF proof.res = "Panic" THEN [res |-> "Panic", roots |-> <<>>, leaves |-> 0]
    ELSE IF proof.res # "Ok" THEN [res |-> "prove", roots |-> <<>>, leaves |-> 0]
    ELSE
    With(ingest_proof(from_roots(get_roots(mem.p), mem.p.leaves), proof, deletes),
         LAMBDA pollard :
             IF pollard.res # "Ok" THEN [res |-> "ingest", roots |-> <<>>, leaves |-> 0]
             ELSE [res |-> "Ok", roots |-> pollard.p.roots,
                   leaves |-> pollard.p.leaves])))

\* forest_to_pollard on the forest as it is, for a set D of its indexed
\* hashes
AccForestToPollard(D) ==
    /\ ~acc.panic
    /\ pf = NoProof /\ zk = NoZk
    /\ call.op = "modify"
    /\ \E made \in {forest_to_pollard(serialize(acc), HashList(D))} :
          pf' = [op |-> "forest_to_pollard", ndels |-> Cardinality(D),
                 res |-> made.res,
                 same |-> made.roots = get_roots(acc) /\ made.leaves = acc.leaves]
    /\ UNCHANGED <<acc, hist, call, zk>>

AccUpdateBlock(outputs, spent, rpc) ==
    /\ ~acc.panic
    /\ hist.clean
    /\ pf = NoProof /\ zk = NoZk
    /\ \E deletes \in {IF rpc = "ok" THEN HashList(spent) ELSE <<>>},
          forest \in {deserialize(serialize(acc))} :
         \E r \in {IF forest.ok THEN modify(forest.p, <<>>, deletes)
                   ELSE [res |-> "Err", p |-> acc]} :
             /\ acc' = IF r.res = "Ok" THEN Dropped(deserialize(serialize(r.p)).p)
                       ELSE acc
             /\ call' = [op |-> "update", res |-> r.res, outputs |-> outputs,
                         spent |-> spent, before |-> acc.leaves]
    /\ hist' = [hist EXCEPT !.clean = FALSE]
    /\ UNCHANGED <<pf, zk>>

\* C27: a successful Update(h) applies the adds and the deletes of block h:
\* the forest written has a leaf more for every output of the block and no
\* longer indexes an output the block spends.
C27_UpdateAppliesBlock ==
    (call.op = "update" /\ call.res = "Ok") =>
        /\ acc.leaves = call.before + call.outputs
        /\ call.spent \cap Index(acc) = {}

\* the positions of a forest with the leaf count of p
Positions(p) == 0..(Pow2(tree_rows(p.leaves) + 1) - 2)
\* the nodes above a node, up to the root of its tree
Ancestors(p, node) ==
    {a \in Nodes(p) : a # node /\ \E i \in 1..Len(Owned(p, a)) : Owned(p, a)[i] = node}
HashedFromChildren(p, a) ==
    /\ p.nodes[a].left # Nil /\ p.nodes[a].right # Nil
    /\ p.nodes[a].data = parent_hash(p.nodes[p.nodes[a].left].data,
                                     p.nodes[p.nodes[a].right].data)

\* C31: deleting a leaf that is not a root makes its sibling subtree take the
\* parent's position: after modify(&[], &[h]) grab_node at the former parent
\* position returns the sibling's hash, the number of roots is what it was,
\* and every ancestor above that position has the hash of its two children.
C31_DeletesOne ==
    /\ hist.clean /\ hist'.clean
    /\ call'.op = "modify"
    /\ hist'.n = hist.n
    /\ Cardinality(hist'.deleted) = Cardinality(hist.deleted) + 1
RECURSIVE HasEmptyOperand(_)
HasEmptyOperand(h) ==
    /\ Len(h) = 2
    /\ \/ is_empty(h[1]) \/ is_empty(h[2])
       \/ HasEmptyOperand(h[1]) \/ HasEmptyOperand(h[2])

\* the root hashes add_single leaves behind when Empty roots are passed over
\* and every other root met is combined with the node on its way up
RECURSIVE RootsAfterAdd(_, _, _)
RootsAfterAdd(roots, h, leaves) ==
    IF leaves % 2 = 0 THEN Append(roots, h)
    ELSE IF is_empty(Last(roots)) THEN RootsAfterAdd(Front(roots), h, leaves \div 2)
    ELSE RootsAfterAdd(Front(roots), parent_hash(Last(roots), h), leaves \div 2)

NoEmptyBelowRoots ==
    \A n \in Nodes(acc) :
        /\ ~HasEmptyOperand(acc.nodes[n].data)
        /\ is_empty(acc.nodes[n].data) =>
              \E i \in 1..Len(acc.roots) : acc.roots[i] = n

\* C32: when an addition meets a root whose hash is Empty, no combine
\* happens: no parent hash is ever computed with an Empty operand, the node
\* being added becomes the root of that rank unchanged, and so no node below
\* a root ever carries the Empty hash.
C32_AddsOneOnEmptyRoot ==
    /\ hist.clean /\ hist'.clean
    /\ call'.op = "modify"
    /\ hist'.n = hist.n + 1
    /\ hist'.deleted = hist.deleted
    /\ acc.leaves % 2 = 1
    /\ is_empty(Last(get_roots(acc)))
AccProveInOrder(a, b) ==
    /\ ~acc.panic
    /\ pf = NoProof /\ zk = NoZk
    /\ call.op = "modify"
    /\ a # b
    /\ b \in Index(acc)
    /\ \E proof \in {prove(acc, <<a, b>>)} :
         pf' = [op |-> "prove_in_order",
                unknown |-> a \notin Index(acc),
                res |-> proof.res,
                ascending |-> \A i \in 1..(Len(proof.targets) - 1) :
                                  proof.targets[i] <= proof.targets[i + 1],
                canonical |->
                    proof.res = "Ok" =>
                        \E needed \in {get_proof_positions(proof.targets, acc.leaves,
                                                           tree_rows(acc.leaves))} :
                           /\ Len(proof.hashes) = Len(needed)
                           /\ \A i \in 1..Len(needed) :
                                 /\ grab_node(acc, needed[i]) \in Nodes(acc)
                                 /\ proof.hashes[i] = acc.nodes[grab_node(acc, needed[i])].data]
    /\ UNCHANGED <<acc, hist, call, zk>>

\* C33: prove(targets) returns the targets' leaf positions in ascending
\* order whatever the order of the hashes in targets, with the sibling
\* hashes being those at get_proof_positions(positions, leaves, rows) in
\* that order; it fails, leaving the accumulator as it is, if a target is
\* not indexed.
C33_ProveSortsPositions ==
    pf.op = "prove_in_order" =>
        IF pf.unknown THEN pf.res = "Err"
        ELSE pf.res = "Ok" /\ pf.ascending /\ pf.canonical

\* where the nodes of a pollard stand: the root of the i-th tree at the root
\* position of its row, the children of the node at a position at that
\* position's child positions (a leaf that moved up stands where its parent
\* stood)
RECURSIVE PlacedBelow(_, _, _)
PlacedBelow(p, node, pos) ==
    IF node = Nil THEN {}
    ELSE {<<pos, node>>}
         \cup PlacedBelow(p, p.nodes[node].left, left_child(pos, tree_rows(p.leaves)))
         \cup PlacedBelow(p, p.nodes[node].right, right_child(pos, tree_rows(p.leaves)))
Placed(p) ==
    UNION {PlacedBelow(p, p.roots[i],
                       root_position(p.leaves, RootRows(p.leaves, 0)[i],
                                     tree_rows(p.leaves))) : i \in 1..Len(p.roots)}

\* C34: position algebra: in every accumulator with N leaves reached by
\* modify calls, for every position p with 0 <= p < 2*N at which a node
\* exists, grab_node(p) returns that node and get_pos of it is p, leaves that
\* moved up after a sibling was deleted included.
C34_GetPosOfGrabNode ==
    (call.op = "modify" /\ hist.clean) =>
        \A at \in Placed(acc) :
            /\ grab_node(acc, at[1]) = at[2]
            /\ get_pos(acc, at[2]) = at[1]

\* ---- C35: a corrupt stream handed to Pollard::deserialize -----------------

\* what a damaged file holds: the stream cut before record i, record i with
\* a node type outside 0..4, or record i with a hash tag outside 0..2
CorruptKinds == {"truncated", "node_type", "hash_tag"}
\* a stream holds at most one record per node of the forest
MaxRecords == 2 * MaxLeaves
UnknownNodeType == 5
UnknownHashTag == 3
Corrupt(bytes, kind, i) ==
    [bytes EXCEPT !.written =
        IF kind = "truncated" THEN SubSeq(@, 1, i - 1)
        ELSE IF kind = "node_type" THEN [@ EXCEPT ![i].ty = UnknownNodeType]
        ELSE [@ EXCEPT ![i].data = <<UnknownHashTag>>]]

\* Pollard::deserialize(reader) on a stream that serialize wrote and that was
\* damaged afterwards; pf keeps how the call ended
AccDeserializeCorrupt(kind, i) ==
    /\ ~acc.panic
    /\ pf = NoProof /\ zk = NoZk
    /\ call.op = "modify"
    /\ \E bytes \in {serialize(acc)} :
         /\ i \in 1..Len(bytes.written)
         /\ \E d \in {deserialize(Corrupt(bytes, kind, i))} :
              pf' = [op |-> "deserialize", kind |-> kind,
                     res |-> IF d.panic THEN "Panic"
                             ELSE IF d.ok THEN "Ok" ELSE "Err"]
    /\ UNCHANGED <<acc, hist, call, zk>>

\* C35: deserialising a stream that is truncated or holds an unknown node-type
\* tag or an unknown hash tag returns an error value to the caller; it never
\* panics and never yields an accumulator
C35_CorruptStreamIsError == pf.op = "deserialize" => pf.res = "Err"

\* ---- C36, C37: get_stripped_pollard and fake_modify on their own ----------

\* C36: get_stripped_pollard returns a pollard with the leaf count and the
\* root hashes of its source in the same order, in which every retained
\* non-root node had its used flag set and every child whose used flag was
\* clear is absent with its subtree; the nodes of the source keep their
\* structure and hashes
C36_StrippedKeepsUsedOnly == zk.op = "circuit" => zk.stripped

\* C36: a source of which the stripped pollard keeps a node below a root and
\* lets another go
C36_Witness ==
    /\ zk.op = "circuit" /\ zk.stripped
    /\ zk.kept >= 1 /\ zk.let_go >= 1

\* C37: the pollard fake_modify returns has the roots, the leaf count and
\* the nodes the receiver had before the call, with the same type, hash and
\* children: only used flags differ
C37_FakeModifyOnlyMarks == zk.op = "circuit" => zk.only_marks

\* ===================== leaf hashes and the blocks handed to process_block
\* v.to_le_bytes() of an n-byte integer
RECURSIVE le_bytes(_, _)
le_bytes(v, n) == IF n = 0 THEN <<>> ELSE <<v % 256>> \o le_bytes(v \div 256, n - 1)

\* a BlockHash or Txid as bytes: of the 32 bytes the first two are kept
hash_bytes(x) == <<x % 256, (x \div 256) % 256>>

\* BlockHash::from_raw_hash(Sha256dHash::all_zeros())
all_zeros == 0

\* Sha512_256 of a byte string; the digest is taken to be injective and
\* stands for the string it was computed from
Sha512_256(bytes) == <<bytes>>

\* the first bytes (0x5b, 0x83) of the 64 of UTREEXO_TAG_V1
UTREEXO_TAG_V1 == <<91, 131>>

\* TxOut::consensus_encode: the value as 8 bytes, the script's length and
\* the script
consensus_encode(utxo) ==
    le_bytes(utxo.value, 8) \o <<Len(utxo.script_pubkey)>> \o utxo.script_pubkey

\* height << 1 | 1 for a coinbase transaction, height << 1 otherwise; the
\* heights here are far below 2^31, where the u32 shift loses no bit
header_code_of(height, coinbase) ==
    (2 * height) + (IF coinbase THEN 1 ELSE 0)

\* LeafData::get_leaf_hashes of the circuit program
circuit_get_leaf_hashes(leaf) ==
    Sha512_256(hash_bytes(leaf.block_hash)
                 \o hash_bytes(leaf.prevout.txid)
                 \o le_bytes(leaf.prevout.vout, 4)
                 \o le_bytes(leaf.header_code, 4)
                 \o consensus_encode(leaf.utxo))

\* LeafData::get_leaf_hashes of the input generator
generator_get_leaf_hashes(leaf) ==
    Sha512_256(UTREEXO_TAG_V1 \o UTREEXO_TAG_V1
                 \o hash_bytes(leaf.block_hash)
                 \o hash_bytes(leaf.prevout.txid)
                 \o le_bytes(leaf.prevout.vout, 4)
                 \o le_bytes(leaf.header_code, 4)
                 \o consensus_encode(leaf.utxo))

\* BitcoinLeafData::compute_hash of the server (LeafData::get_leaf_hashes
\* there is BitcoinLeafData::from(leaf).compute_hash(), and From<LeafContext>
\* keeps the value and the script only)
compute_hash(leaf) == Sha512_256(consensus_encode(leaf.utxo))

\* utreexo::LeafData::get_leaf_hashes, which the accumulator service calls:
\* the tag twice, then the five fields
utreexo_get_leaf_hashes(leaf) ==
    Sha512_256(UTREEXO_TAG_V1 \o UTREEXO_TAG_V1
                 \o hash_bytes(leaf.block_hash)
                 \o hash_bytes(leaf.prevout.txid)
                 \o le_bytes(leaf.prevout.vout, 4)
                 \o le_bytes(leaf.header_code, 4)
                 \o consensus_encode(leaf.utxo))

Impls == {"circuit", "generator", "server", "utreexo"}
LeafHashOf(impl, leaf) ==
    CASE impl = "circuit" -> circuit_get_leaf_hashes(leaf)
      [] impl = "generator" -> generator_get_leaf_hashes(leaf)
      [] impl = "server" -> compute_hash(leaf)
      [] impl = "utreexo" -> utreexo_get_leaf_hashes(leaf)

\* ------------------------------------------------------------ the blocks
OP_RETURN == 106
MaxTxs == 2
MaxInputs == 2
MaxOutputs == 2

\* the outputs a transaction may have: two amounts to one script, and a
\* data carrier
TxOuts ==
    {[value |-> 1, script_pubkey |-> <<81>>],
     [value |-> 2, script_pubkey |-> <<81>>],
     [value |-> 0, script_pubkey |-> <<OP_RETURN>>]}

\* the unspent outputs of the chain below the block, as the rows of a
\* dumptxoutset export
ChainUtxos ==
    {[txid |-> 1, vout |-> 0, height |-> 1, coinbase |-> FALSE,
      utxo |-> [value |-> 1, script_pubkey |-> <<81>>]],
     [txid |-> 2, vout |-> 0, height |-> 2, coinbase |-> TRUE,
      utxo |-> [value |-> 1, script_pubkey |-> <<81>>]]}
BlockHeight == 1 + CHOOSE h \in {u.height : u \in ChainUtxos} :
                      \A u \in ChainUtxos : u.height <= h

\* the hash of the block at a height, and the txid of a transaction
BlockHashAt(height) == height
compute_txid(tx) == tx.id
block_hash(block) == BlockHashAt(block.height)

NullOutPoint == [txid |-> 0, vout |-> 0]
is_coinbase(tx) == Len(tx.input) = 1 /\ tx.input[1] = NullOutPoint

\* Script::is_op_return, and Prover::is_unspendable of the server
is_op_return(script) == script # <<>> /\ script[1] = OP_RETURN
is_unspendable(script) ==
    Len(script) > 10000 \/ (script # <<>> /\ script[1] = OP_RETURN)

\* the outputs of the block's transactions, as outpoints
CreatedInBlock(block) ==
    {[txid |-> compute_txid(block.txdata[t]), vout |-> idx - 1] :
        <<t, idx>> \in {x \in (1..Len(block.txdata)) \X (1..MaxOutputs) :
                          x[2] <= Len(block.txdata[x[1]].output)}}

\* the outpoints the non-coinbase transactions of the block spend
SpentInBlock(block) ==
    {block.txdata[t].input[i] :
        <<t, i>> \in {x \in (1..Len(block.txdata)) \X (1..MaxInputs) :
                        /\ ~is_coinbase(block.txdata[x[1]])
                        /\ x[2] <= Len(block.txdata[x[1]].input)}}

\* the commitment of an outpoint: its creating block's hash, the outpoint,
\* the creating height with the coinbase bit, and the output
LeafOf(block, prevout) ==
    IF \E u \in ChainUtxos : u.txid = prevout.txid /\ u.vout = prevout.vout
    THEN LET u == CHOOSE u \in ChainUtxos :
                      u.txid = prevout.txid /\ u.vout = prevout.vout
         IN [block_hash |-> BlockHashAt(u.height), prevout |-> prevout,
             header_code |-> header_code_of(u.height, u.coinbase),
             utxo |-> u.utxo]
    ELSE LET tx == block.txdata[CHOOSE t \in 1..Len(block.txdata) :
                                   compute_txid(block.txdata[t]) = prevout.txid]
         IN [block_hash |-> block_hash(block), prevout |-> prevout,
             header_code |-> header_code_of(block.height, is_coinbase(tx)),
             utxo |-> tx.output[prevout.vout + 1]]

\* what a transaction put next into the block may spend: an unspent output
\* of the chain or of an earlier transaction of the block
Spendable(block) ==
    {o \in {[txid |-> u.txid, vout |-> u.vout] : u \in ChainUtxos}
              \cup CreatedInBlock(block) :
        /\ o \notin SpentInBlock(block)
        /\ ~is_op_return(LeafOf(block, o).utxo.script_pubkey)}

OutPointLess(a, b) == a.txid < b.txid \/ (a.txid = b.txid /\ a.vout < b.vout)
InputLists(block) ==
    UNION {{s \in [1..n -> Spendable(block)] :
               \A i \in 1..(n - 1) : OutPointLess(s[i], s[i + 1])} : n \in 1..MaxInputs}
OutputLists == UNION {[1..n -> TxOuts] : n \in 1..MaxOutputs}

\* the HashMap<TxIn, BitcoinNodeHash> handed to process_block: for every
\* input of the block the hash `producer` computes for the output it spends
InputLeafHashes(producer, block) ==
    [prevout \in SpentInBlock(block) |-> LeafHashOf(producer, LeafOf(block, prevout))]

\* utxos.iter().position(|h| *h == hash), 0 for None
position(utxos, hash) ==
    IF \E i \in 1..Len(utxos) : utxos[i] = hash
    THEN CHOOSE i \in 1..Len(utxos) :
             utxos[i] = hash /\ \A j \in 1..(i - 1) : utxos[j] # hash
    ELSE 0

\* for input in tx.input.iter(): an input whose hash is among utxos takes it
\* out of utxos, any other goes to inputs
RECURSIVE process_inputs(_, _, _, _)
process_inputs(st, input, i, input_leaf_hashes) ==
    IF i > Len(input) THEN st
    ELSE With(input_leaf_hashes[input[i]], LAMBDA hash :
         With(position(st.utxos, hash), LAMBDA idx :
             process_inputs(
                 IF idx # 0
                 THEN [st EXCEPT !.utxos = SubSeq(@, 1, idx - 1)
                                             \o SubSeq(@, idx + 1, Len(@))]
                 ELSE [st EXCEPT !.inputs = Append(@, hash)],
                 input, i + 1, input_leaf_hashes)))

\* for (idx, output) in tx.output.iter().enumerate(): the leaf hash of every
\* output that is kept goes to utxos; the server leaves out what
\* is_unspendable, the circuit and the generator what is_op_return
RECURSIVE process_outputs(_, _, _, _, _)
process_outputs(impl, st, block, tx, idx) ==
    IF idx >= Len(tx.output) THEN st
    ELSE With(tx.output[idx + 1], LAMBDA output :
             process_outputs(impl,
                 IF (IF impl = "server" THEN is_unspendable(output.script_pubkey)
                                        ELSE is_op_return(output.script_pubkey))
                 THEN st
                 ELSE [st EXCEPT !.utxos = Append(@, LeafHashOf(impl,
                          [block_hash |-> block_hash(block),
                           header_code |-> header_code_of(block.height,
                                                          is_coinbase(tx)),
                           prevout |-> [txid |-> compute_txid(tx), vout |-> idx],
                           utxo |-> output]))],
                 block, tx, idx + 1))

RECURSIVE process_txdata(_, _, _, _, _)
process_txdata(impl, st, block, t, input_leaf_hashes) ==
    IF t > Len(block.txdata) THEN st
    ELSE With(block.txdata[t], LAMBDA tx :
             process_txdata(impl,
                 process_outputs(impl,
                     IF is_coinbase(tx) THEN st
                     ELSE process_inputs(st, tx.input, 1, input_leaf_hashes),
                     block, tx, 0),
                 block, t + 1, input_leaf_hashes))

\* process_block of the circuit, the generator or the server up to its
\* modify(&utxos, &inputs): the two lists it passes
process_block(impl, block, input_leaf_hashes) ==
    process_txdata(impl, [inputs |-> <<>>, utxos |-> <<>>], block, 1,
                   input_leaf_hashes)

\* the non-coinbase inputs of the block in block order
RECURSIVE InputsFrom(_, _)
InputsFrom(block, t) ==
    IF t > Len(block.txdata) THEN <<>>
    ELSE (IF is_coinbase(block.txdata[t]) THEN <<>> ELSE block.txdata[t].input)
           \o InputsFrom(block, t + 1)

\* rpc.get_txout(prev): the value and the script of the output
get_txout(block, prev) == LeafOf(block, prev).utxo

\* btc_rpc::get_block_leaf_hashes(rpc, height): for every input of every
\* non-coinbase transaction of the block at `height`, the leaf hash of the
\* block's own hash, the outpoint, hdr_height << 1 and what get_txout
\* returns
get_block_leaf_hashes(block) ==
    [i \in 1..Len(InputsFrom(block, 1)) |->
        utreexo_get_leaf_hashes(
            [block_hash |-> block_hash(block),
             prevout |-> InputsFrom(block, 1)[i],
             header_code |-> 2 * block.height,
             utxo |-> get_txout(block, InputsFrom(block, 1)[i])])]

\* parquet::get_all_leaf_hashes for one row that is not a coinbase row: the
\* block hash zeroed, (height as u32) << 1
parquet_leaf_hash(row) ==
    utreexo_get_leaf_hashes(
        [block_hash |-> all_zeros,
         prevout |-> [txid |-> row.txid, vout |-> row.vout],
         header_code |-> 2 * row.height,
         utxo |-> row.utxo])
get_all_leaf_hashes(rows) == {parquet_leaf_hash(row) : row \in {r \in rows : ~r.coinbase}}

\* the commitments two of which are hashed next to each other
LeafDatas ==
    [block_hash : {all_zeros, BlockHashAt(BlockHeight)}, prevout : {[txid |-> 1, vout |-> v] : v \in {0, 1}},
     header_code : {header_code_of(1, c) : c \in BOOLEAN},
     utxo : {o \in TxOuts : ~is_op_return(o.script_pubkey)}]

\* ---------------------------------------------------------------- actions
\* a block at the next height with its coinbase transaction
BlkInit ==
    /\ SvcParked
    /\ FsParked
    /\ AccParked
    /\ \E o \in TxOuts :
         blk = [height |-> BlockHeight,
                txdata |-> <<[id |-> 3, input |-> <<NullOutPoint>>,
                              output |-> <<o>>]>>]
    /\ lh = NoLeafHashes

\* one more transaction in the block
PushTx(input, output) ==
    /\ lh = NoLeafHashes
    /\ Len(blk.txdata) <= MaxTxs
    /\ blk' = [blk EXCEPT !.txdata =
                  Append(@, [id |-> 3 + Len(@), input |-> input, output |-> output])]
    /\ UNCHANGED lh

\* every leaf-hash function on two commitments
LeafHashes(leaf, other) ==
    /\ lh = NoLeafHashes
    /\ Len(blk.txdata) = 1
    /\ lh' = [op |-> "get_leaf_hashes", leaf |-> leaf, other |-> other,
              hash |-> [impl \in Impls |-> LeafHashOf(impl, leaf)],
              other_hash |-> [impl \in Impls |-> LeafHashOf(impl, other)]]
    /\ UNCHANGED blk

\* process_block on the block; the server computes the input hashes itself
\* (get_input_leaf_hash), the circuit and the generator are handed them
ProcessBlock(impl, producer) ==
    /\ lh = NoLeafHashes
    /\ impl = "server" => producer = "server"
    /\ \E r \in {process_block(impl, blk, InputLeafHashes(producer, blk))} :
         lh' = [op |-> "process_block", impl |-> impl, producer |-> producer,
                utxos |-> r.utxos, inputs |-> r.inputs]
    /\ UNCHANGED blk

\* the updater asks for the deletes of the block
GetBlockLeafHashes ==
    /\ lh = NoLeafHashes
    /\ lh' = [op |-> "get_block_leaf_hashes", hashes |-> get_block_leaf_hashes(blk)]
    /\ UNCHANGED blk

BlkNext ==
    \/ \E input \in InputLists(blk), output \in OutputLists :
           PushTx(input, output) /\ UNCHANGED <<svcVars, fsVars, accVars>>
    \/ \E leaf \in LeafDatas, other \in LeafDatas :
           LeafHashes(leaf, other) /\ UNCHANGED <<svcVars, fsVars, accVars>>
    \/ \E impl \in {"circuit", "generator", "server"},
          producer \in {"circuit", "generator", "server"} :
           ProcessBlock(impl, producer) /\ UNCHANGED <<svcVars, fsVars, accVars>>
    \/ GetBlockLeafHashes /\ UNCHANGED <<svcVars, fsVars, accVars>>

BlkSpec == BlkInit /\ [][BlkNext]_vars

\* ---- C38..C40: leaf hashes across the components --------------------------

\* the digest of (tag, tag, block_hash, txid, vout little-endian, header_code
\* little-endian, consensus-serialised output)
Fingerprint(leaf) ==
    Sha512_256(UTREEXO_TAG_V1 \o UTREEXO_TAG_V1
                 \o hash_bytes(leaf.block_hash) \o hash_bytes(leaf.prevout.txid)
                 \o le_bytes(leaf.prevout.vout, 4) \o le_bytes(leaf.header_code, 4)
                 \o consensus_encode(leaf.utxo))

\* C38: every leaf-hash implementation that feeds an accumulator computes
\* the digest of (tag, tag, block_hash, txid, vout, header_code, output): all
\* give that hash for a commitment, and different hashes for two commitments
\* that differ
C38_OneLeafHashFunction ==
    lh.op = "get_leaf_hashes" =>
        \A impl \in Impls :
            /\ lh.hash[impl] = Fingerprint(lh.leaf)
            /\ lh.leaf # lh.other => lh.hash[impl] # lh.other_hash[impl]

\* the hashes under which an output of the chain may have entered a forest:
\* the builder's for a row of the export, and the one process_block adds
\* for an output of a block (its block's hash, the coinbase bit)
AddFingerprints(row) ==
    get_all_leaf_hashes({row})
      \cup {utreexo_get_leaf_hashes(
               LeafOf(blk, [txid |-> row.txid, vout |-> row.vout]))}

\* C39: for every output of the chain the block spends, the delete hash the
\* updater computes equals the add hash under which the output entered the
\* forest
C39_DeleteIsAddFingerprint ==
    lh.op = "get_block_leaf_hashes" =>
        \A i \in 1..Len(lh.hashes) : \A row \in ChainUtxos :
            (row.txid = InputsFrom(blk, 1)[i].txid /\ row.vout = InputsFrom(blk, 1)[i].vout)
                => lh.hashes[i] \in AddFingerprints(row)

\* what the adds and the deletes of a block are: the hashes handed over for
\* the inputs that spend an output of the chain, and the hashes of the
\* block's outputs that are no data carriers and that the block does not
\* spend, both in block order
DeletesOf(block, input_leaf_hashes) ==
    [i \in 1..Len(SelectSeq(InputsFrom(block, 1),
                            LAMBDA o : o \notin CreatedInBlock(block))) |->
        input_leaf_hashes[SelectSeq(InputsFrom(block, 1),
                                    LAMBDA o : o \notin CreatedInBlock(block))[i]]]
RECURSIVE AddsFrom(_, _, _, _)
AddsFrom(impl, block, t, idx) ==
    IF t > Len(block.txdata) THEN <<>>
    ELSE IF idx >= Len(block.txdata[t].output) THEN AddsFrom(impl, block, t + 1, 0)
    ELSE (IF \/ is_op_return(block.txdata[t].output[idx + 1].script_pubkey)
             \/ [txid |-> compute_txid(block.txdata[t]), vout |-> idx]
                    \in SpentInBlock(block)
          THEN <<>>
          ELSE <<LeafHashOf(impl, LeafOf(block,
                     [txid |-> compute_txid(block.txdata[t]), vout |-> idx]))>>)
           \o AddsFrom(impl, block, t, idx + 1)

\* C40: the adds and the deletes process_block passes to modify are
\* disjoint; the deletes are exactly the leaf hashes of the inputs spending
\* outputs created before the block, the adds exactly the hashes of the
\* block's non-OP_RETURN outputs that the block does not spend
C40_AddsAndDeletesOfBlock ==
    lh.op = "process_block" =>
        /\ {lh.utxos[i] : i \in 1..Len(lh.utxos)}
              \cap {lh.inputs[i] : i \in 1..Len(lh.inputs)} = {}
        /\ lh.inputs = DeletesOf(blk, InputLeafHashes(lh.producer, blk))
        /\ lh.utxos = AddsFrom(lh.impl, blk, 1, 0)

AccNext ==
    \/ \E k \in 0..MaxAdds, dels \in DelLists :
           AccModify(k, dels) /\ UNCHANGED <<svcVars, fsVars, blkVars>>
    \/ \E h \in DelHashes : AccModifyRepeated(h) /\ UNCHANGED <<svcVars, fsVars, blkVars>>
    \/ \E outputs \in 1..MaxAdds, spent \in SUBSET Index(acc),
          rpc \in {"ok", "unset", "err"} :
           AccUpdateBlock(outputs, spent, rpc) /\ UNCHANGED <<svcVars, fsVars, blkVars>>
    \/ \E T \in SUBSET Index(acc) : AccProve(T) /\ UNCHANGED <<svcVars, fsVars, blkVars>>
    \/ \E a \in DelHashes, b \in Index(acc) :
           AccProveInOrder(a, b) /\ UNCHANGED <<svcVars, fsVars, blkVars>>
    \/ \E kind \in CorruptKinds, i \in 1..MaxRecords :
           AccDeserializeCorrupt(kind, i) /\ UNCHANGED <<svcVars, fsVars, blkVars>>
    \/ \E T \in SUBSET Index(acc), k \in 0..MaxAdds :
           AccAfterBlock(T, k) /\ UNCHANGED <<svcVars, fsVars, blkVars>>
    \/ \E D \in SUBSET Index(acc) :
           AccForestToPollard(D) /\ UNCHANGED <<svcVars, fsVars, blkVars>>
    \/ \E k \in 0..MaxAdds, dels \in DelLists, loaded \in BOOLEAN :
           AccCircuit(k, dels, loaded) /\ UNCHANGED <<svcVars, fsVars, blkVars>>

AccSpec == AccInit /\ [][AccNext]_vars

=============================================================================
